---- MODULE Spec2Model ----
(***************************************************************************)
(* Fund forecasting engine (src/shared/enhanced-fund-model.ts).            *)
(*                                                                         *)
(* Number representation.  The engine computes on IEEE doubles and on     *)
(* decimal.js values; the model computes on integers:                     *)
(*   - rates and probabilities are whole percents (0.02 is 2),            *)
(*   - money is a whole number of units unless a definition says it is a  *)
(*     numerator over a named denominator (the result of a division is    *)
(*     kept exact that way),                                              *)
(*   - a product with a pseudo-random draw is floored to a whole unit,    *)
(*   - ratios (dpi, moic, ...) are fixed-point, RatioScale to the unit.   *)
(***************************************************************************)
EXTENDS Integers, Sequences, FiniteSets, TLC

\* ------------------------------------------------------------------------
\* Bounds of the model
\* ------------------------------------------------------------------------
\* forecast and clear calls made in one behaviour
MaxCalls == 3
\* direct buildPortfolioFromStrategy calls and clears in one behaviour
MaxBuilds == 4
\* direct calculateAmericanWaterfall calls in one behaviour
MaxWaterfallCalls == 2
\* configurations never seen before that are forecast while the cache fills
MaxFresh == 102
\* repeated requests (cache hits) while the cache fills
MaxProbes == 2
\* direct calculateAmericanWaterfall calls with arguments never used before
MaxWaterfallFill == 103

\* ------------------------------------------------------------------------
\* Number representation
\* ------------------------------------------------------------------------
\* ratios are fixed-point with three decimal digits
RatioScale == 10 * 100
\* a percent of a percent of a whole unit
WaterfallDen == 100 * 100
\* a quarter of a percent of a percent of a whole unit
FeeDen == 100 * 100 * 4

\* ------------------------------------------------------------------------
\* Program constants
\* ------------------------------------------------------------------------
CACHE_SIZE_LIMIT == 100
TIMES_LIMIT == 100
distributionStartQuarter == 12
SEED_PORTFOLIO == 12345
SEED_PROGRESSION == 67890
LCG_A == 16807
LCG_M == 2147483647

Min(a, b) == IF a <= b THEN a ELSE b
Max(a, b) == IF a >= b THEN a ELSE b

\* ------------------------------------------------------------------------
\* deterministicRandom: seed = (seed * 16807) % 2147483647.
\* The product needs 46 bits; Schrage's decomposition gives the same value
\* with every intermediate below 2^31.
\* ------------------------------------------------------------------------
NextSeed(seed) ==
    LET q == LCG_M \div LCG_A
        r == LCG_M % LCG_A
        t == LCG_A * (seed % q) - r * (seed \div q)
    IN  IF t > 0 THEN t ELSE t + LCG_M

\* Math.floor((seed / 2147483647) * k) for 0 <= k < 2^15, computed exactly:
\* k * seed = Ah * 2^31 + Al * 2^16 + B and 2^31 = LCG_M + 1.
RandFloor(k, seed) ==
    LET s1 == seed \div 65536
        s0 == seed % 65536
        A  == k * s1
        B  == k * s0
        Ah == A \div 32768
        Al == A % 32768
        C  == Al * 65536
        c1 == IF C >= LCG_M - B THEN 1 ELSE 0
        T1 == IF c1 = 1 THEN C - (LCG_M - B) ELSE C + B
        c2 == IF T1 >= LCG_M - Ah THEN 1 ELSE 0
    IN  Ah + c1 + c2

\* floor(pct * 2147483647 / 100) for 0 <= pct <= 100
PctThreshold(pct) == pct * (LCG_M \div 100) + (pct * (LCG_M % 100)) \div 100

\* seed / 2147483647 <= pct / 100   (the draw is never 0 and never 1)
RandLE(seed, pct) ==
    IF pct < 0 THEN FALSE
    ELSE IF pct >= 100 THEN TRUE
    ELSE seed <= PctThreshold(pct)

\* seed / 2147483647 < pct / 100
RandLT(seed, pct) ==
    IF pct <= 0 THEN FALSE
    ELSE IF pct >= 100 THEN TRUE
    ELSE seed <= PctThreshold(pct)

\* ------------------------------------------------------------------------
\* Default matrices
\* ------------------------------------------------------------------------
DefaultStages == {"Pre-Seed", "Seed", "Series A", "Series B", "Series C", "Series D+"}

Probs(f, l, m, h, g) == [fail |-> f, low |-> l, med |-> m, high |-> h, mega |-> g]

DEFAULT_EXIT_PROBABILITIES ==
    [s \in DefaultStages |->
        CASE s = "Pre-Seed"  -> Probs(90, 6, 2, 1, 1)
          [] s = "Seed"      -> Probs(80, 10, 5, 3, 2)
          [] s = "Series A"  -> Probs(65, 15, 10, 7, 3)
          [] s = "Series B"  -> Probs(50, 20, 15, 10, 5)
          [] s = "Series C"  -> Probs(35, 25, 20, 15, 5)
          [] s = "Series D+" -> Probs(10, 20, 30, 25, 15)]

\* A graduation-matrix row is the list of its (destination, rate) entries in
\* Object.entries order.
DEFAULT_GRADUATION_MATRIX ==
    [s \in DefaultStages |->
        CASE s = "Pre-Seed"  -> << <<"Seed", 30>>, <<"Series A", 12>>, <<"Series B", 6>> >>
          [] s = "Seed"      -> << <<"Series A", 35>>, <<"Series B", 20>>, <<"Series C", 12>> >>
          [] s = "Series A"  -> << <<"Series B", 50>>, <<"Series C", 30>>, <<"Series D+", 21>> >>
          [] s = "Series B"  -> << <<"Series C", 50>>, <<"Series D+", 35>> >>
          [] s = "Series C"  -> << <<"Series D+", 60>> >>
          [] s = "Series D+" -> << <<"Exit", 100>> >>]

\* stageMultiplier[toStage] || 1.0, in tenths
StageMultiplier(toStage) ==
    CASE toStage = "Seed"      -> 12
      [] toStage = "Series A"  -> 15
      [] toStage = "Series B"  -> 18
      [] toStage = "Series C"  -> 20
      [] toStage = "Series D+" -> 25
      [] OTHER                 -> 10

\* ------------------------------------------------------------------------
\* Configurations (EnhancedFundInputs)
\* ------------------------------------------------------------------------
Strategy(s, a, c, q) ==
    [stage |-> s, allocationPct |-> a, avgInvestmentSize |-> c, avgExitQuarter |-> q]

BaseExitMatrix ==
    [s \in {"Seed", "Growth"} |->
        IF s = "Seed" THEN Probs(80, 10, 5, 3, 2) ELSE Probs(50, 20, 15, 10, 5)]

AllFailMatrix == [s \in {"Seed", "Growth"} |-> Probs(100, 0, 0, 0, 0)]

NoGrowthMatrix == [s \in {"Seed"} |-> Probs(80, 10, 5, 3, 2)]

BaseGraduationMatrix ==
    [s \in {"Seed", "Growth"} |->
        IF s = "Seed"
        THEN << <<"Series A", 35>>, <<"Series B", 20>>, <<"Series C", 12>> >>
        ELSE << <<"Series C", 50>> >>]

BaseInputs ==
    [fundName |-> 0,
     fundSize |-> 100,
     managementFeeRate |-> 2,
     carryPct |-> 20,
     hurdleRate |-> 0,
     gpCommitmentPct |-> 2,
     includeGpInFees |-> FALSE,
     fundLifeYears |-> 10,
     fundLifeQuarters |-> 14,
     investPeriodQuarters |-> 4,
     stageStrategies |-> << Strategy("Seed", 60, 20, 16), Strategy("Growth", 40, 30, 20) >>,
     graduationMatrix |-> BaseGraduationMatrix,
     exitProbabilityMatrix |-> BaseExitMatrix]

AllFailInputs == [BaseInputs EXCEPT !.exitProbabilityMatrix = AllFailMatrix]
NoRowInputs   == [BaseInputs EXCEPT !.exitProbabilityMatrix = NoGrowthMatrix]
ZeroFundInputs == [BaseInputs EXCEPT !.fundSize = 0]
LongInvestInputs == [BaseInputs EXCEPT !.investPeriodQuarters = 8]
ShortLifeInputs == [BaseInputs EXCEPT !.fundLifeQuarters = 4]
NoFeeFailInputs ==
    [BaseInputs EXCEPT !.exitProbabilityMatrix = AllFailMatrix, !.managementFeeRate = 0]

\* a fund life that ends in the quarter distributions start
StartLifeInputs == [BaseInputs EXCEPT !.fundLifeQuarters = 12]
StartLifeFailInputs == [AllFailInputs EXCEPT !.fundLifeQuarters = 12]

\* no graduation row for the stage of the second strategy
NoGraduationRowInputs ==
    [BaseInputs EXCEPT !.graduationMatrix =
        [s \in {"Seed"} |-> << <<"Series A", 35>>, <<"Series B", 20>>, <<"Series C", 12>> >>]]

\* rates the validation only warns about
HighFeeInputs == [BaseInputs EXCEPT !.managementFeeRate = 12]
HighCarryInputs == [BaseInputs EXCEPT !.carryPct = 60]

\* the investment period and fund life of DEFAULT_FUND_PARAMS, and exit
\* rows without failures
DefaultPeriodInputs ==
    [BaseInputs EXCEPT !.investPeriodQuarters = 20, !.fundLifeQuarters = 40,
                       !.exitProbabilityMatrix =
                           [s \in {"Seed", "Growth"} |-> Probs(0, 50, 30, 15, 5)]]

Configs ==
    {BaseInputs, AllFailInputs, NoRowInputs, ZeroFundInputs,
     LongInvestInputs, ShortLifeInputs, NoFeeFailInputs,
     StartLifeInputs, StartLifeFailInputs, HighFeeInputs, HighCarryInputs,
     NoGraduationRowInputs, DefaultPeriodInputs}

\* ------------------------------------------------------------------------
\* validateEnhancedInputs
\* ------------------------------------------------------------------------
\* field is the path of the field, as a tuple
Issue(f, c, s) == [field |-> f, code |-> c, severity |-> s]

\* typeof value === 'number' && !isNaN(value) && isFinite(value), for the
\* field f of inputs: a configuration lists in notNumbers the fields that
\* hold NaN (none when it has no such list)
isValidNumber(inputs, f) ==
    ~("notNumbers" \in DOMAIN inputs /\ f \in inputs.notNumbers)

\* what inputs.stageStrategies is: an "array", undefined ("missing") or a
\* plain object ("object")
StrategiesKind(inputs) ==
    IF "strategiesKind" \in DOMAIN inputs THEN inputs.strategiesKind ELSE "array"

\* what an element of stageStrategies is: a "strategy", "null", or an object
\* with a stage and no numeric field ("partial")
StrategyKind(strategy) ==
    IF "kind" \in DOMAIN strategy THEN strategy.kind ELSE "strategy"

isValidStageStrategy(strategy) == StrategyKind(strategy) = "strategy"

\* IEEE doubles in [0, 2), exactly: the value is (hi * 2^30 + lo) * 2^-60
TwoTo15 == 32768
TwoTo30 == TwoTo15 * TwoTo15

DNorm(hi, lo) ==
    IF lo >= TwoTo30 THEN [hi |-> hi + 1, lo |-> lo - TwoTo30]
    ELSE IF lo < 0 THEN [hi |-> hi - 1, lo |-> lo + TwoTo30]
    ELSE [hi |-> hi, lo |-> lo]

\* the spacing of doubles around the value, in units of 2^-60: 2^8 in [1, 2),
\* 2^7 in [1/2, 1), ...; below 2^-8 every multiple of the unit is a double
RECURSIVE UlpFrom(_, _, _)
UlpFrom(hi, threshold, ulp) ==
    IF ulp = 1 \/ hi >= threshold THEN ulp
    ELSE UlpFrom(hi, threshold \div 2, ulp \div 2)

Ulp(hi) == UlpFrom(hi, TwoTo30, 256)

\* round to nearest, ties to even; rest100 is the part of the value below
\* one unit, in hundredths of the unit
DRound(hi, lo, rest100) ==
    LET Rounded(u, q, rem100) ==
            DNorm(hi, u * (q + (IF \/ 2 * rem100 > u * 100
                                   \/ (2 * rem100 = u * 100 /\ q % 2 = 1)
                                THEN 1 ELSE 0)))
    IN  Rounded(Ulp(hi), lo \div Ulp(hi), (lo % Ulp(hi)) * 100 + rest100)

\* p/100 in units of 2^-60, by long division of p * 2^60 by 100 in digits of
\* 15 bits: hi * 2^30 + lo units and rest100 hundredths of a unit
HundredthsParts(p) ==
    LET Digit(r) == [q |-> (r * TwoTo15) \div 100, r |-> (r * TwoTo15) % 100]
        d3 == Digit(p % 100)
        d2 == Digit(d3.r)
        d1 == Digit(d2.r)
        d0 == Digit(d1.r)
    IN  [hi |-> (p \div 100) * TwoTo30 + d3.q * TwoTo15 + d2.q,
         lo |-> d1.q * TwoTo15 + d0.q,
         rest100 |-> d0.r]

\* the double a decimal literal p/100 denotes
DoubleOfHundredths(p) ==
    LET Rounded(parts) == DRound(parts.hi, parts.lo, parts.rest100)
    IN  Rounded(HundredthsParts(p))

DLess(a, b) == a.hi < b.hi \/ (a.hi = b.hi /\ a.lo < b.lo)

\* a + b
DAdd(a, b) ==
    LET Exact(n) == DRound(n.hi, n.lo, 0) IN Exact(DNorm(a.hi + b.hi, a.lo + b.lo))

\* Math.abs(a - b)
DAbsDiff(a, b) ==
    LET Exact(n) == DRound(n.hi, n.lo, 0)
    IN  IF DLess(a, b) THEN Exact(DNorm(b.hi - a.hi, b.lo - a.lo))
        ELSE Exact(DNorm(a.hi - b.hi, a.lo - b.lo))

\* stageStrategies.filter(isValidStageStrategy)
\*     .reduce((sum, s) => sum + s.allocationPct, 0)
RECURSIVE TotalAllocation(_, _, _)
TotalAllocation(ss, i, sum) ==
    IF i > Len(ss) THEN sum
    ELSE IF ~isValidStageStrategy(ss[i]) THEN TotalAllocation(ss, i + 1, sum)
    ELSE TotalAllocation(ss, i + 1, DAdd(sum, DoubleOfHundredths(ss[i].allocationPct)))

\* Math.abs(totalAllocation - 1.0) > 0.01
AllocationSumOff(total) ==
    DLess(DoubleOfHundredths(1), DAbsDiff(total, DoubleOfHundredths(100)))

RECURSIVE SumAlloc(_, _)
SumAlloc(ss, i) ==
    IF i > Len(ss) THEN 0 ELSE ss[i].allocationPct + SumAlloc(ss, i + 1)

RECURSIVE StrategyIssues(_, _)
StrategyIssues(ss, i) ==
    IF i > Len(ss) THEN <<>>
    ELSE IF ~isValidStageStrategy(ss[i])
    THEN << Issue(<<"stageStrategies", i>>, "INVALID_STAGE_STRATEGY", "error") >>
         \o StrategyIssues(ss, i + 1)
    ELSE (IF ss[i].avgInvestmentSize <= 0
          THEN << Issue(<<"stageStrategies", i, "avgInvestmentSize">>,
                        "INVALID_INVESTMENT_SIZE", "error") >>
          ELSE <<>>)
         \o
         (IF ss[i].allocationPct < 0 \/ ss[i].allocationPct > 100
          THEN << Issue(<<"stageStrategies", i, "allocationPct">>,
                        "INVALID_ALLOCATION_PCT", "error") >>
          ELSE <<>>)
         \o StrategyIssues(ss, i + 1)

Abs(x) == IF x < 0 THEN -x ELSE x

\* reserveRatio < 0.1, where reserveRatio =
\* (investableCapital - totalPlannedInvestment) / investableCapital;
\* a zero investableCapital, a NaN field or an element without allocationPct
\* gives NaN, which is not below 0.1.
LowReserves(inputs) ==
    IF \/ ~isValidNumber(inputs, "fundSize")
       \/ ~isValidNumber(inputs, "managementFeeRate")
       \/ \E i \in 1..Len(inputs.stageStrategies) :
             ~isValidStageStrategy(inputs.stageStrategies[i])
    THEN FALSE
    ELSE
    LET fees100 == inputs.fundSize * inputs.managementFeeRate * inputs.fundLifeYears
        inv100  == inputs.fundSize * 100 - fees100
        planned == SumAlloc(inputs.stageStrategies, 1) * inv100
        num     == inv100 * 100 - planned
        den     == inv100 * 100
    IN  IF den = 0 THEN FALSE
        ELSE IF den > 0 THEN 10 * num < den
        ELSE 10 * num > den

\* inputs.stageStrategies.reduce(...) of the reserve check: a TypeError when
\* stageStrategies is not an array (no reduce to call) or holds a null
\* element (s.allocationPct of null)
ValidationThrows(inputs) ==
    \/ StrategiesKind(inputs) # "array"
    \/ \E i \in 1..Len(inputs.stageStrategies) :
          StrategyKind(inputs.stageStrategies[i]) = "null"

\* the issues pushed; they are returned unless the reserve check throws
validateEnhancedInputs(inputs) ==
    LET ss == inputs.stageStrategies
    IN  (IF ~isValidNumber(inputs, "fundSize") \/ inputs.fundSize <= 0
         THEN << Issue(<<"fundSize">>, "INVALID_FUND_SIZE", "error") >> ELSE <<>>)
        \o
        (IF StrategiesKind(inputs) # "array" \/ Len(ss) = 0
         THEN << Issue(<<"stageStrategies">>, "MISSING_STAGE_STRATEGIES", "error") >>
         ELSE StrategyIssues(ss, 1)
              \o (IF AllocationSumOff(TotalAllocation(ss, 1, DoubleOfHundredths(0)))
                  THEN << Issue(<<"stageStrategies">>, "INVALID_ALLOCATION_SUM", "error") >>
                  ELSE <<>>))
        \o
        (IF ~isValidNumber(inputs, "managementFeeRate")
         THEN << Issue(<<"managementFeeRate">>, "INVALID_MGMT_FEE", "error") >>
         ELSE IF inputs.managementFeeRate < 0 \/ inputs.managementFeeRate > 10
         THEN << Issue(<<"managementFeeRate">>, "INVALID_MGMT_FEE_RANGE", "warning") >>
         ELSE <<>>)
        \o
        (IF ~isValidNumber(inputs, "carryPct")
         THEN << Issue(<<"carryPct">>, "INVALID_CARRY", "error") >>
         ELSE IF inputs.carryPct < 0 \/ inputs.carryPct > 50
         THEN << Issue(<<"carryPct">>, "INVALID_CARRY_RANGE", "warning") >> ELSE <<>>)
        \o
        (IF LowReserves(inputs)
         THEN << Issue(<<"reserves">>, "LOW_RESERVES", "warning") >> ELSE <<>>)

\* A faulty variant: every issue counts as critical
CriticalErrors_All(errors) == errors

\* A faulty variant: the filter keeps the warnings instead of the errors
CriticalErrors_Warnings(errors) == SelectSeq(errors, LAMBDA e : e.severity = "warning")

\* errors.filter(e => e.severity === 'error')
CriticalErrors(errors) == SelectSeq(errors, LAMBDA e : e.severity = "error")

\* ------------------------------------------------------------------------
\* Map<string, V>: the list of its entries in insertion order
\* ------------------------------------------------------------------------
MapHas(m, k) == \E i \in 1..Len(m) : m[i].key = k
MapGet(m, k) == m[CHOOSE i \in 1..Len(m) : m[i].key = k].value
MapSet(m, k, v) ==
    IF MapHas(m, k)
    THEN [i \in 1..Len(m) |-> IF m[i].key = k THEN [key |-> k, value |-> v] ELSE m[i]]
    ELSE Append(m, [key |-> k, value |-> v])
\* map.delete(map.keys().next().value)
MapDeleteFirst(m) == IF Len(m) = 0 THEN m ELSE Tail(m)
MapKeys(m) == [i \in 1..Len(m) |-> m[i].key]
MapValues(m) == [i \in 1..Len(m) |-> m[i].value]

\* ------------------------------------------------------------------------
\* buildPortfolioFromStrategy
\* ------------------------------------------------------------------------
NoQuarter == -1

\* JSON.stringify({fundSize, stageStrategies, managementFeeRate, fundLifeYears})
PortfolioCacheKey(inputs) ==
    << inputs.fundSize, inputs.stageStrategies,
       inputs.managementFeeRate, inputs.fundLifeYears >>

\* investableCapital, as a numerator over 10000
InvestableCapital(inputs) ==
    LET feeBase100 == IF inputs.includeGpInFees
                      THEN inputs.fundSize * 100
                      ELSE inputs.fundSize * 100 - inputs.fundSize * inputs.gpCommitmentPct
        fees == feeBase100 * inputs.managementFeeRate * inputs.fundLifeYears
    IN  inputs.fundSize * 10000 - fees

NumCompanies(inputs, strategy) ==
    (InvestableCapital(inputs) * strategy.allocationPct)
        \div (strategy.avgInvestmentSize * 1000000)

\* inputs.exitProbabilityMatrix[stage] || DEFAULT_EXIT_PROBABILITIES[stage]
HasExitProbs(inputs, stage) ==
    stage \in DOMAIN inputs.exitProbabilityMatrix \/ stage \in DefaultStages
ExitProbs(inputs, stage) ==
    IF stage \in DOMAIN inputs.exitProbabilityMatrix
    THEN inputs.exitProbabilityMatrix[stage]
    ELSE DEFAULT_EXIT_PROBABILITIES[stage]

\* One iteration of the company loop, started with generator state seed.
\* s1..s4 are the generator states after the first to the fourth draw, p the
\* exit probabilities of the stage.
NewCompany(inputs, strategy, strategyIndex, i, seed) ==
    LET Drawn(s1, s2, s3, s4, p, avg) ==
            LET initialInvestment ==
                    [stage |-> strategy.stage, amount |-> avg,
                     quarter |-> RandFloor(inputs.investPeriodQuarters, s1),
                     isFollowOn |-> FALSE]
                exitValue ==
                    IF RandLE(s2, p.fail) THEN 0
                    ELSE IF RandLE(s2, p.fail + p.low)
                         THEN avg * 1 + RandFloor(avg * 2, s3)
                    ELSE IF RandLE(s2, p.fail + p.low + p.med)
                         THEN avg * 3 + RandFloor(avg * 7, s3)
                    ELSE IF RandLE(s2, p.fail + p.low + p.med + p.high)
                         THEN avg * 10 + RandFloor(avg * 40, s3)
                    ELSE avg * 50 + RandFloor(avg * 100, s3)
                Made(failed) ==
                    [company |->
                        [id |-> <<strategy.stage, strategyIndex, i + 1>>,
                         entryStage |-> strategy.stage,
                         currentStage |-> strategy.stage,
                         investments |-> << initialInvestment >>,
                         totalInvested |-> avg,
                         exitValue |-> exitValue,
                         exitQuarter |-> IF failed THEN NoQuarter
                                         ELSE strategy.avgExitQuarter + RandFloor(8, s4),
                         status |-> IF failed THEN "written-off" ELSE "active"],
                     seed |-> IF failed THEN s2 ELSE s4]
            IN  Made(RandLE(s2, p.fail))
        Seeded(s1) ==
            LET After2(s2) ==
                    LET After3(s3) ==
                            Drawn(s1, s2, s3, NextSeed(s3),
                                  ExitProbs(inputs, strategy.stage),
                                  strategy.avgInvestmentSize)
                    IN  After3(NextSeed(s2))
            IN  After2(NextSeed(s1))
    IN  Seeded(NextSeed(seed))

\* The loops over the strategies and over the companies of each strategy;
\* a stage without exit probabilities makes the first company of that stage
\* throw a TypeError.
RECURSIVE GeneratePortfolio(_, _, _, _, _)
GeneratePortfolio(inputs, strategyIndex, i, seed, portfolio) ==
    LET ss == inputs.stageStrategies IN
    IF strategyIndex > Len(ss) THEN [threw |-> FALSE, portfolio |-> portfolio]
    ELSE IF i >= NumCompanies(inputs, ss[strategyIndex])
    THEN GeneratePortfolio(inputs, strategyIndex + 1, 0, seed, portfolio)
    ELSE IF ~HasExitProbs(inputs, ss[strategyIndex].stage)
    THEN [threw |-> TRUE, portfolio |-> <<>>]
    ELSE LET Pushed(c) == GeneratePortfolio(inputs, strategyIndex, i + 1, c.seed,
                                            Append(portfolio, c.company))
         IN  Pushed(NewCompany(inputs, ss[strategyIndex], strategyIndex - 1, i, seed))

\* A faulty variant: a full cache drops its newest entry
EvictIfFull_Newest(cache) ==
    IF Len(cache) >= CACHE_SIZE_LIMIT THEN SubSeq(cache, 1, Len(cache) - 1) ELSE cache

\* if (cache.size >= CACHE_SIZE_LIMIT) delete the first key
EvictIfFull(cache) ==
    IF Len(cache) >= CACHE_SIZE_LIMIT THEN MapDeleteFirst(cache) ELSE cache

\* The call: the value returned (or the throw) and the portfolioCache after it.
buildPortfolioFromStrategy(inputs, pCache) ==
    LET cacheKey == PortfolioCacheKey(inputs) IN
    IF MapHas(pCache, cacheKey)
    THEN [threw |-> FALSE, value |-> MapGet(pCache, cacheKey), cache |-> pCache,
          generated |-> FALSE]
    ELSE LET Generated(g) ==
                IF g.threw
                THEN [threw |-> TRUE, value |-> <<>>, cache |-> pCache, generated |-> TRUE]
                ELSE [threw |-> FALSE, value |-> g.portfolio,
                      cache |-> MapSet(EvictIfFull(pCache), cacheKey, g.portfolio),
                      generated |-> TRUE]
         IN  Generated(GeneratePortfolio(inputs, 1, 0, SEED_PORTFOLIO, <<>>))

\* ------------------------------------------------------------------------
\* simulatePortfolioProgression
\* ------------------------------------------------------------------------
GraduationRates(inputs, stage) ==
    IF stage \in DOMAIN inputs.graduationMatrix
    THEN inputs.graduationMatrix[stage] ELSE <<>>

\* The follow-on branch for destination toStage; seed is the generator state
\* after the graduation draw.
Graduate(company, toStage, seed) ==
    LET first == company.investments[1]
        FollowOn(s1, s2, followOnAmount) ==
            [company |->
                [company EXCEPT
                    !.investments =
                        Append(@, [stage |-> toStage, amount |-> followOnAmount,
                                   quarter |-> first.quarter + 4 + RandFloor(8, s2),
                                   isFollowOn |-> TRUE]),
                    !.totalInvested = @ + followOnAmount,
                    !.currentStage = toStage,
                    !.exitValue = IF @ # 0 THEN (@ * StageMultiplier(toStage)) \div 10
                                  ELSE @],
             seed |-> s2]
        Seeded(s1) ==
            FollowOn(s1, NextSeed(s1),
                     (first.amount + RandFloor(first.amount * 2, s1)) \div 2)
    IN  Seeded(NextSeed(seed))

\* A faulty variant: the loop goes on after a graduation
RECURSIVE TryGraduate_NoBreak(_, _, _, _)
TryGraduate_NoBreak(company, rates, j, seed) ==
    IF j > Len(rates) THEN [company |-> company, seed |-> seed]
    ELSE LET Graduated(g) == TryGraduate_NoBreak(g.company, rates, j + 1, g.seed)
             Drawn(s1) ==
                IF RandLT(s1, rates[j][2]) /\ company.status = "active"
                THEN Graduated(Graduate(company, rates[j][1], s1))
                ELSE TryGraduate_NoBreak(company, rates, j + 1, s1)
         IN  Drawn(NextSeed(seed))

\* The for-loop over the entries of the company's graduation row.
RECURSIVE TryGraduate(_, _, _, _)
TryGraduate(company, rates, j, seed) ==
    IF j > Len(rates) THEN [company |-> company, seed |-> seed]
    ELSE LET Drawn(s1) ==
                IF RandLT(s1, rates[j][2]) /\ company.status = "active"
                THEN Graduate(company, rates[j][1], s1)
                ELSE TryGraduate(company, rates, j + 1, s1)
         IN  Drawn(NextSeed(seed))

\* A faulty variant: the copy shares the investments array of the company
CompanyAfterCopy_SharedInvestments(company, updatedCompany) ==
    [company EXCEPT !.investments = updatedCompany.investments]

\* const updatedCompany = { ...company, investments: [...company.investments] }:
\* every push and assignment of the callback goes to the copy, so the company
\* of the list passed in is, after the callback, what it was before
CompanyAfterCopy(company, updatedCompany) == company

RECURSIVE ProgressFrom(_, _, _, _)
ProgressFrom(portfolio, inputs, i, seed) ==
    IF i > Len(portfolio) THEN <<>>
    ELSE LET Mapped(r) ==
                << r.company >> \o ProgressFrom(portfolio, inputs, i + 1, r.seed)
         IN  Mapped(TryGraduate(portfolio[i],
                                GraduationRates(inputs, portfolio[i].currentStage),
                                1, seed))

simulatePortfolioProgression(portfolio, inputs) ==
    ProgressFrom(portfolio, inputs, 1, SEED_PROGRESSION)

\* ------------------------------------------------------------------------
\* calculateAmericanWaterfall.  The money fields of a WaterfallSummary are
\* numerators over WaterfallDen; on percent inputs the Decimal arithmetic
\* is exact.
\* ------------------------------------------------------------------------
\* `${totalInvested}-${totalExitValue}-${carryPct}-${hurdleRate}`
WaterfallCacheKey(totalInvested, totalExitValue, carryPct, hurdleRate) ==
    << totalInvested, totalExitValue, carryPct, hurdleRate >>

\* the branch profit.lte(0)
NoProfitSummary(totalInvested, totalExitValue) ==
    [totalInvested |-> totalInvested * WaterfallDen,
     totalExitValue |-> totalExitValue * WaterfallDen,
     totalProfit |-> 0,
     lpReturnOfCapital |-> Min(totalExitValue, totalInvested) * WaterfallDen,
     lpPreferredReturn |-> 0,
     gpCatchUp |-> 0,
     gpCarry |-> 0,
     lpCarry |-> 0,
     finalLpProceeds |-> totalExitValue * WaterfallDen,
     finalGpProceeds |-> 0]

\* A faulty variant: lpCarry is the LP share of the profit after the hurdle instead of
\* what gpCarry leaves
ProfitSummary_LpShare(totalInvested, totalExitValue, carryPct, hurdleRate) ==
    LET profit == (totalExitValue - totalInvested) * WaterfallDen
        lpReturnOfCapital == totalInvested * WaterfallDen
        preferredReturn == totalInvested * hurdleRate * 100
        profitAfterHurdle == profit - preferredReturn
        gpCarry == Max(0, (profitAfterHurdle \div 100) * carryPct)
        lpCarry == (profitAfterHurdle \div 100) * (100 - carryPct)
    IN  [totalInvested |-> totalInvested * WaterfallDen,
         totalExitValue |-> totalExitValue * WaterfallDen,
         totalProfit |-> profit,
         lpReturnOfCapital |-> lpReturnOfCapital,
         lpPreferredReturn |-> preferredReturn,
         gpCatchUp |-> 0,
         gpCarry |-> gpCarry,
         lpCarry |-> lpCarry,
         finalLpProceeds |-> lpReturnOfCapital + preferredReturn + lpCarry,
         finalGpProceeds |-> gpCarry]

\* the American waterfall (deal-by-deal carry)
ProfitSummary(totalInvested, totalExitValue, carryPct, hurdleRate) ==
    LET profit == (totalExitValue - totalInvested) * WaterfallDen
        lpReturnOfCapital == totalInvested * WaterfallDen
        preferredReturn == totalInvested * hurdleRate * 100
        profitAfterHurdle == profit - preferredReturn
        gpCarry == Max(0, (profitAfterHurdle \div 100) * carryPct)
        lpCarry == profitAfterHurdle - gpCarry
    IN  [totalInvested |-> totalInvested * WaterfallDen,
         totalExitValue |-> totalExitValue * WaterfallDen,
         totalProfit |-> profit,
         lpReturnOfCapital |-> lpReturnOfCapital,
         lpPreferredReturn |-> preferredReturn,
         gpCatchUp |-> 0,
         gpCarry |-> gpCarry,
         lpCarry |-> lpCarry,
         finalLpProceeds |-> lpReturnOfCapital + preferredReturn + lpCarry,
         finalGpProceeds |-> gpCarry]

\* The call: the summary returned and the waterfallCache after it.  The
\* no-profit branch stores its result without looking at the cache size.
calculateAmericanWaterfall(totalInvested, totalExitValue, carryPct, hurdleRate, wCache) ==
    LET cacheKey == WaterfallCacheKey(totalInvested, totalExitValue, carryPct, hurdleRate)
        Stored(result) == [value |-> result, cache |-> MapSet(wCache, cacheKey, result)]
        EvictedAndStored(result) ==
            [value |-> result, cache |-> MapSet(EvictIfFull(wCache), cacheKey, result)]
    IN
    IF MapHas(wCache, cacheKey)
    THEN [value |-> MapGet(wCache, cacheKey), cache |-> wCache]
    ELSE IF totalExitValue - totalInvested <= 0
    THEN Stored(NoProfitSummary(totalInvested, totalExitValue))
    ELSE EvictedAndStored(ProfitSummary(totalInvested, totalExitValue, carryPct, hurdleRate))

\* ------------------------------------------------------------------------
\* calculateIRR.  The solver computes on doubles whose magnitudes range over
\* many decades ((1 + rate)^j for rate in [-0.99, 10]); the model computes on
\* decimal floating-point numbers [m, e] of value m * 10^e with a mantissa of
\* four digits (1000 <= |m| <= 9999, or m = 0), rounded half away from zero.
\* ------------------------------------------------------------------------
RECURSIVE FNorm(_, _)
FNorm(m, e) ==
    IF m = 0 THEN [m |-> 0, e |-> 0]
    ELSE IF Abs(m) >= 10000
    THEN FNorm((IF m < 0 THEN -1 ELSE 1) * ((Abs(m) + 5) \div 10), e + 1)
    ELSE IF Abs(m) < 1000 THEN FNorm(m * 10, e - 1)
    ELSE [m |-> m, e |-> e]

FInt(n) == FNorm(n, 0)

RECURSIVE Pow10(_)
Pow10(d) == IF d = 0 THEN 1 ELSE 10 * Pow10(d - 1)

FNeg(a) == [m |-> -a.m, e |-> a.e]

FAbs(a) == [m |-> Abs(a.m), e |-> a.e]

\* a + b; an addend more than five decades below the other is lost
FAdd(a, b) ==
    IF a.m = 0 THEN b
    ELSE IF b.m = 0 THEN a
    ELSE IF a.e >= b.e
    THEN (IF a.e - b.e > 5 THEN a ELSE FNorm(a.m * Pow10(a.e - b.e) + b.m, b.e))
    ELSE (IF b.e - a.e > 5 THEN b ELSE FNorm(b.m * Pow10(b.e - a.e) + a.m, a.e))

FSub(a, b) == FAdd(a, FNeg(b))

FMul(a, b) == FNorm(a.m * b.m, a.e + b.e)

\* a / b for b # 0
FDiv(a, b) ==
    FNorm((IF (a.m < 0) # (b.m < 0) THEN -1 ELSE 1)
              * ((Abs(a.m) * 100000) \div Abs(b.m)),
          a.e - b.e - 5)

FLess(a, b) == FSub(a, b).m < 0

\* Math.pow(x, j) for a whole j >= 0
RECURSIVE FPow(_, _)
FPow(x, j) ==
    IF j = 0 THEN FInt(1)
    ELSE IF j % 2 = 1 THEN FMul(x, FPow(x, j - 1))
    ELSE LET Squared(h) == FMul(h, h) IN Squared(FPow(x, j \div 2))

\* isNaN(x) || !isFinite(x): the largest double is below 1.8 * 10^308
FIsFinite(x) == x.e + 3 <= 308

maxIterations == 50

\* let rate = 0.1
InitialRate == FNorm(1, -1)

\* const tolerance = 1e-6
tolerance == FNorm(1, -6)

\* the clamp: -0.99 and 10
RateFloor == FNorm(-99, -2)
RateCap == FInt(10)

\* One pass of the inner loop body, for the cash flow at index j (0-based).
NpvTerm(cashFlows, rate, j, sums) ==
    LET Term(discountFactor, cf) ==
            [npv  |-> FAdd(sums.npv, FDiv(cf, discountFactor)),
             dnpv |-> FSub(sums.dnpv, FDiv(FMul(FInt(j), cf),
                                           FMul(discountFactor, FAdd(FInt(1), rate))))]
    IN  Term(FPow(FAdd(FInt(1), rate), j), cashFlows[j + 1])

\* The inner loop over the cash flows at indices lo .. hi - 1, in index
\* order, from the running sums: the range is walked as its lower half
\* followed by its upper half, which is the same sequence of additions.
RECURSIVE NpvSums(_, _, _, _, _)
NpvSums(cashFlows, rate, lo, hi, sums) ==
    IF hi <= lo THEN sums
    ELSE IF hi = lo + 1 THEN NpvTerm(cashFlows, rate, lo, sums)
    ELSE CHOOSE upper \in { NpvSums(cashFlows, rate, (lo + hi) \div 2, hi, lower) :
                               lower \in { NpvSums(cashFlows, rate, lo, (lo + hi) \div 2,
                                                   sums) } } : TRUE

\* if (newRate < -0.99) rate = -0.99; else if (newRate > 10) rate = 10;
\* else rate = newRate
ClampRate(newRate) ==
    IF FLess(newRate, RateFloor) THEN RateFloor
    ELSE IF FLess(RateCap, newRate) THEN RateCap
    ELSE newRate

\* One body of the Newton-Raphson loop; a break leaves the rate as it is
\* and ends the loop. iterations counts the loop bodies entered.
NewtonStep(cashFlows, loop) ==
    IF loop.broke THEN loop
    ELSE LET Stepped(sums) ==
                IF FLess(FAbs(sums.npv), tolerance) \/ FLess(FAbs(sums.dnpv), tolerance)
                THEN [rate |-> loop.rate, iterations |-> loop.iterations + 1,
                      broke |-> TRUE]
                ELSE [rate |-> ClampRate(FSub(loop.rate, FDiv(sums.npv, sums.dnpv))),
                      iterations |-> loop.iterations + 1, broke |-> FALSE]
         IN  Stepped(NpvSums(cashFlows, loop.rate, 0, Len(cashFlows),
                             [npv |-> FInt(0), dnpv |-> FInt(0)]))

\* The Newton-Raphson loop for i in lo .. hi - 1, in order: the range is
\* walked as its lower half followed by its upper half.
RECURSIVE NewtonRaphson(_, _, _, _)
NewtonRaphson(cashFlows, lo, hi, loop) ==
    IF hi <= lo \/ loop.broke THEN loop
    ELSE IF hi = lo + 1 THEN NewtonStep(cashFlows, loop)
    ELSE CHOOSE upper \in { NewtonRaphson(cashFlows, (lo + hi) \div 2, hi, lower) :
                               lower \in { NewtonRaphson(cashFlows, lo, (lo + hi) \div 2,
                                                         loop) } } : TRUE

\* A faulty variant: only a missing inflow is trivial
IsTrivialCashFlows_NoPositiveOnly(cashFlows) ==
    \/ Len(cashFlows) = 0
    \/ ~(\E j \in 1..Len(cashFlows) : cashFlows[j].m > 0)

\* cashFlows.length === 0 || !hasPositive || !hasNegative
IsTrivialCashFlows(cashFlows) ==
    \/ Len(cashFlows) = 0
    \/ ~(\E j \in 1..Len(cashFlows) : cashFlows[j].m > 0)
    \/ ~(\E j \in 1..Len(cashFlows) : cashFlows[j].m < 0)

\* The call: the rate returned and the number of Newton-Raphson iterations
\* run.
calculateIRR(cashFlows) ==
    IF IsTrivialCashFlows(cashFlows) THEN [rate |-> FInt(0), iterations |-> 0]
    ELSE LET Finished(r) ==
                [rate |-> IF FIsFinite(r.rate) THEN r.rate ELSE FInt(0),
                 iterations |-> r.iterations]
         IN  Finished(NewtonRaphson(cashFlows, 0, maxIterations,
                                    [rate |-> InitialRate, iterations |-> 0,
                                     broke |-> FALSE]))

\* ------------------------------------------------------------------------
\* buildEnhancedFundForecast: company results, fees, timeline, summary
\* ------------------------------------------------------------------------
\* n / d as a fixed-point ratio
Ratio(n, d) == (n * RatioScale) \div d

\* (n / FeeDen) / d as a fixed-point ratio
FeeRatio(n, d) == n \div (d * (FeeDen \div RatioScale))

CompanyResult(company, inputs) ==
    LET invested == company.totalInvested
        exitProceeds == company.exitValue
        profit == exitProceeds - invested
    IN  [companyId |-> company.id,
         invested |-> invested,
         exitProceeds |-> exitProceeds,
         profit |-> profit,
         \* carry and lpProfit are numerators over 100
         carry |-> Max(0, profit * inputs.carryPct),
         lpProfit |-> profit * 100 - Max(0, profit * inputs.carryPct),
         multiple |-> IF invested > 0 THEN Ratio(exitProceeds, invested) ELSE 0]

RECURSIVE SumField(_, _, _)
SumField(rs, f, i) == IF i > Len(rs) THEN 0 ELSE rs[i][f] + SumField(rs, f, i + 1)

\* quarterlyMgmtFee, as a numerator over FeeDen
QuarterlyMgmtFee(inputs) ==
    LET feeBase100 == IF inputs.includeGpInFees
                      THEN inputs.fundSize * 100
                      ELSE inputs.fundSize * 100 - inputs.fundSize * inputs.gpCommitmentPct
    IN  feeBase100 * inputs.managementFeeRate

\* totalManagementFees, as a numerator over FeeDen
TotalManagementFees(inputs) == QuarterlyMgmtFee(inputs) * inputs.fundLifeQuarters

DistributionPeriod(inputs) == inputs.fundLifeQuarters - distributionStartQuarter

\* The contribution, distribution, cumulative and nav fields of a timeline
\* point are numerators over TimelineDen: distributionsPerQuarter is
\* totalExitValue / distributionPeriod.  A fund life below the distribution
\* start never pays a distribution.
TimelineDen(inputs) ==
    IF DistributionPeriod(inputs) > 0 THEN DistributionPeriod(inputs) ELSE 1

\* distributionsPerQuarter = totalExitValue / distributionPeriod is not a
\* finite number when distributionPeriod is 0: Infinity for a positive exit
\* value, NaN for 0 / 0.  "none" says the number is finite.
DistributionsPerQuarterSpecial(inputs, totalExitValue) ==
    IF DistributionPeriod(inputs) # 0 THEN "none"
    ELSE IF totalExitValue > 0 THEN "Infinity" ELSE "NaN"

\* the kind of x + y, for x and y not negative
AddSpecial(x, y) ==
    IF x = "NaN" \/ y = "NaN" THEN "NaN"
    ELSE IF x = "Infinity" \/ y = "Infinity" THEN "Infinity" ELSE "none"

\* const contribution = quarter === 0 ? inputs.fundSize : 0
Contribution(inputs, quarter) ==
    IF quarter = 0 THEN inputs.fundSize * TimelineDen(inputs) ELSE 0

\* const distribution = quarter >= distributionStartQuarter ? distributionsPerQuarter : 0
Distribution(inputs, totalExitValue, quarter) ==
    IF quarter >= distributionStartQuarter
          /\ DistributionsPerQuarterSpecial(inputs, totalExitValue) = "none"
    THEN totalExitValue ELSE 0

DistributionSpecial(inputs, totalExitValue, quarter) ==
    IF quarter >= distributionStartQuarter
    THEN DistributionsPerQuarterSpecial(inputs, totalExitValue) ELSE "none"

\* The performance ratios of one quarter
PointRatios(cumulativeContributions, cumulativeDistributions, nav) ==
    LET dpi == IF cumulativeContributions > 0
               THEN Ratio(cumulativeDistributions, cumulativeContributions) ELSE 0
        rvpi == IF cumulativeContributions > 0
                THEN Ratio(nav, cumulativeContributions) ELSE 0
    IN  [dpi |-> dpi, rvpi |-> rvpi, tvpi |-> dpi + rvpi]

\* One iteration of the quarter loop.  special is the kind of
\* cumulativeDistributions, and with it of distributions, dpi and tvpi, when
\* it is not a finite number; the fields then hold 0.  Math.max(0, x) is 0
\* for x = -Infinity and NaN for x = NaN, so nav and rvpi are NaN with it and
\* finite otherwise.
TimelinePoint(inputs, totalInvested, totalExitValue, quarter, cumC, cumD, cumDSpecial) ==
    LET Point(contribution, distribution, special, cumulativeContributions,
              cumulativeDistributions, nav, r) ==
            [quarter |-> quarter,
             special |-> special,
             yearQuarter |-> << (quarter \div 4) + 1, (quarter % 4) + 1 >>,
             contributions |-> contribution,
             distributions |-> distribution,
             managementFees |-> IF quarter > 0 THEN QuarterlyMgmtFee(inputs) ELSE 0,
             cumulativeContributions |-> cumulativeContributions,
             cumulativeDistributions |-> cumulativeDistributions,
             nav |-> nav,
             dpi |-> r.dpi,
             rvpi |-> r.rvpi,
             tvpi |-> r.tvpi,
             moic |-> IF totalInvested > 0 THEN Ratio(totalExitValue, totalInvested) ELSE 0,
             netMoic |-> IF totalInvested > 0
                         THEN FeeRatio(totalExitValue * FeeDen - TotalManagementFees(inputs),
                                       totalInvested)
                         ELSE 0]
        Valued(contribution, distribution, special, cumulativeContributions,
               cumulativeDistributions, nav) ==
            Point(contribution, distribution, special, cumulativeContributions,
                  cumulativeDistributions, nav,
                  PointRatios(cumulativeContributions, cumulativeDistributions, nav))
        Accumulated(contribution, distribution, special, cumulativeDistributions) ==
            Valued(contribution, distribution, special, cumC + contribution,
                   cumulativeDistributions,
                   IF special = "none"
                   THEN Max(0, totalExitValue * TimelineDen(inputs) - cumulativeDistributions)
                   ELSE 0)
        Paid(contribution, distribution, special) ==
            Accumulated(contribution, distribution, special,
                        IF special = "none" THEN cumD + distribution ELSE 0)
    IN  Paid(Contribution(inputs, quarter),
             Distribution(inputs, totalExitValue, quarter),
             AddSpecial(cumDSpecial, DistributionSpecial(inputs, totalExitValue, quarter)))

\* for (quarter = 0; quarter <= fundLifeQuarters; quarter++)
RECURSIVE BuildTimeline(_, _, _, _, _, _, _)
BuildTimeline(inputs, totalInvested, totalExitValue, quarter, cumC, cumD, cumDSpecial) ==
    IF ~(quarter <= inputs.fundLifeQuarters) THEN <<>>
    ELSE LET Pushed(p) ==
                << p >> \o BuildTimeline(inputs, totalInvested, totalExitValue, quarter + 1,
                                         p.cumulativeContributions,
                                         p.cumulativeDistributions, p.special)
         IN  Pushed(TimelinePoint(inputs, totalInvested, totalExitValue, quarter,
                                  cumC, cumD, cumDSpecial))

\* timeline[timeline.length - 1]?.f || 0
LastOr0(timeline, f) == IF Len(timeline) = 0 THEN 0 ELSE timeline[Len(timeline)][f]

\* The kind of the summary tvpi and dpi: NaN || 0 is 0, Infinity || 0 is
\* Infinity
LastSpecialOr0(timeline) ==
    IF Len(timeline) = 0 \/ timeline[Len(timeline)].special = "NaN" THEN "none"
    ELSE timeline[Len(timeline)].special

\* The cash-flow array built for the IRR of the point at quarter, whose nav
\* is nav: one number for each i in 0 .. quarter, as numerators over
\* TimelineDen.
\*   if (i === 0) -fundSize
\*   else if (i >= distributionStartQuarter
\*            && i < distributionStartQuarter + distributionPeriod)
\*        distributionsPerQuarter
\*   else if (i === fundLifeQuarters) nav
\*   else 0
CashFlowsOf(inputs, totalExitValue, quarter, nav) ==
    [k \in 1..(quarter + 1) |->
        LET i == k - 1 IN
        IF i = 0 THEN -(inputs.fundSize * TimelineDen(inputs))
        ELSE IF i >= distributionStartQuarter
                /\ i < distributionStartQuarter + DistributionPeriod(inputs)
        THEN totalExitValue
        ELSE IF i = inputs.fundLifeQuarters THEN nav
        ELSE 0]

\* n / den as a number of the solver
FRatio(n, den) == FDiv(FInt(n), FInt(den))

\* cashFlows.map((cf, idx) => idx === 0 ? cf : cf - quarterlyMgmtFee), as
\* numbers of the solver
NetCashFlowsOf(inputs, cashFlows) ==
    [k \in 1..Len(cashFlows) |->
        IF k = 1 THEN FRatio(cashFlows[k], TimelineDen(inputs))
        ELSE FSub(FRatio(cashFlows[k], TimelineDen(inputs)),
                  FRatio(QuarterlyMgmtFee(inputs), FeeDen))]

\* grossIrr and netIrr of a timeline point, with the arrays they are computed
\* from
PointIrr(inputs, totalExitValue, point) ==
    LET Solved(cashFlows, netCashFlows) ==
            [quarter |-> point.quarter,
             nav |-> point.nav,
             cashFlows |-> cashFlows,
             netCashFlows |-> netCashFlows,
             grossIrr |-> calculateIRR([k \in 1..Len(cashFlows) |->
                                          FRatio(cashFlows[k], TimelineDen(inputs))]).rate,
             netIrr |-> calculateIRR(netCashFlows).rate]
        Built(cashFlows) == Solved(cashFlows, NetCashFlowsOf(inputs, cashFlows))
    IN  Built(CashFlowsOf(inputs, totalExitValue, point.quarter, point.nav))

\* netMoic of the result
ResultNetMoic(inputs, totalInvested, totalExitValue, gpCarry) ==
    IF totalInvested > 0
    THEN FeeRatio(totalExitValue * FeeDen - TotalManagementFees(inputs)
                    - gpCarry * (FeeDen \div WaterfallDen),
                  inputs.fundSize)
    ELSE 0

\* The ForecastResult built from the progressed portfolio and the waterfall
\* summary; obj is the identity of the new object.
ForecastResultOf(inputs, portfolio, waterfallSummary, obj) ==
    LET Result(companyResults, totalInvested, totalExitValue, timeline) ==
            [obj |-> obj,
             timeline |-> timeline,
             portfolio |-> portfolio,
             companyResults |-> companyResults,
             waterfallSummary |-> waterfallSummary,
             totalInvested |-> totalInvested,
             totalExitValue |-> totalExitValue,
             totalManagementFees |-> TotalManagementFees(inputs),
             totalGpCarry |-> waterfallSummary.gpCarry,
             totalLpProfit |->
                 waterfallSummary.finalLpProceeds - inputs.fundSize * WaterfallDen,
             grossMoic |-> IF totalInvested > 0
                           THEN Ratio(totalExitValue, totalInvested) ELSE 0,
             netMoic |-> ResultNetMoic(inputs, totalInvested, totalExitValue,
                                       waterfallSummary.gpCarry),
             tvpi |-> LastOr0(timeline, "tvpi"),
             dpi |-> LastOr0(timeline, "dpi"),
             rvpi |-> LastOr0(timeline, "rvpi"),
             special |-> LastSpecialOr0(timeline),
             fundLifeQuarters |-> inputs.fundLifeQuarters]
        Aggregated(companyResults, totalInvested, totalExitValue) ==
            Result(companyResults, totalInvested, totalExitValue,
                   BuildTimeline(inputs, totalInvested, totalExitValue, 0, 0, 0, "none"))
        Summed(companyResults) ==
            Aggregated(companyResults,
                       SumField(companyResults, "invested", 1),
                       SumField(companyResults, "exitProceeds", 1))
    IN  Summed([i \in 1..Len(portfolio) |-> CompanyResult(portfolio[i], inputs)])

\* JSON.stringify(inputs): every field of the configuration, in order
CalculationCacheKey(inputs) ==
    << inputs.fundName, inputs.fundSize, inputs.managementFeeRate, inputs.carryPct,
       inputs.hurdleRate, inputs.gpCommitmentPct, inputs.includeGpInFees,
       inputs.fundLifeYears, inputs.fundLifeQuarters, inputs.investPeriodQuarters,
       inputs.stageStrategies, inputs.graduationMatrix, inputs.exitProbabilityMatrix >>

\* A faulty variant: the result is returned without being stored
StoreResult_Skip(cache, cacheKey, result) == cache

\* calculationCache: evict the first key when full, then set
StoreResult(cache, cacheKey, result) == MapSet(EvictIfFull(cache), cacheKey, result)

\* performanceMetrics.recordCalculation: only the length of calculationTimes
\* is modelled, the times themselves are the clock's
RecordCalculation(times) == IF times + 1 > TIMES_LIMIT THEN TIMES_LIMIT ELSE times + 1

\* performanceMetrics.getCacheHitRate
getCacheHitRate(hits, misses) ==
    IF hits + misses > 0 THEN Ratio(hits, hits + misses) ELSE 0

getPerformanceMetrics(hits, misses, cache) ==
    [cacheHitRate |-> getCacheHitRate(hits, misses),
     totalCalculations |-> hits + misses,
     cacheSize |-> Len(cache)]

NoValue == [obj |-> -1]

\* One call of buildEnhancedFundForecast from the module state st: what the
\* call returns or throws, the steps of the pipeline it ran, and the module
\* state it leaves.
buildEnhancedFundForecast(inputs, st) ==
    LET cacheKey == CalculationCacheKey(inputs)
        missed == [st EXCEPT !.cacheMisses = @ + 1]
        \* the result is stored and returned
        Returned(built, wf, result) ==
            [outcome |-> "returned",
             value |-> result,
             details |-> <<>>,
             steps |-> {"validate", "portfolio", "simulate", "waterfall", "timeline"}
                          \cup (IF built.generated THEN {"generate"} ELSE {}),
             state |-> [missed EXCEPT
                            !.calculationCache = StoreResult(@, cacheKey, result),
                            !.portfolioCache = built.cache,
                            !.waterfallCache = wf.cache,
                            !.calculationTimes = RecordCalculation(@),
                            !.nextObj = @ + 1]]
        \* company results, fees, timeline and summary
        Distributed(built, portfolio, wf) ==
            Returned(built, wf, ForecastResultOf(inputs, portfolio, wf.value, st.nextObj))
        \* calculateAmericanWaterfall on the totals of the progressed portfolio
        Progressed(built, portfolio) ==
            Distributed(built, portfolio,
                        calculateAmericanWaterfall(SumField(portfolio, "totalInvested", 1),
                                                   SumField(portfolio, "exitValue", 1),
                                                   inputs.carryPct, inputs.hurdleRate,
                                                   st.waterfallCache))
        \* buildPortfolioFromStrategy returned or threw
        Built(built) ==
            IF built.threw
            THEN [outcome |-> "TypeError",
                  value |-> NoValue,
                  details |-> <<>>,
                  steps |-> {"validate", "portfolio"}
                               \cup (IF built.generated THEN {"generate"} ELSE {}),
                  state |-> [missed EXCEPT !.calculationTimes = RecordCalculation(@),
                                           !.portfolioCache = built.cache]]
            ELSE Progressed(built, simulatePortfolioProgression(built.value, inputs))
        \* validation ran
        Validated(criticalErrors) ==
            IF Len(criticalErrors) > 0
            THEN [outcome |-> "FundModelError",
                  value |-> NoValue,
                  details |-> criticalErrors,
                  steps |-> {"validate"},
                  state |-> [missed EXCEPT !.calculationTimes = RecordCalculation(@)]]
            ELSE Built(buildPortfolioFromStrategy(inputs, st.portfolioCache))
    IN
    IF MapHas(st.calculationCache, cacheKey)
    THEN [outcome |-> "returned",
          value |-> MapGet(st.calculationCache, cacheKey),
          details |-> <<>>,
          steps |-> {},
          state |-> [st EXCEPT !.cacheHits = @ + 1]]
    ELSE IF ValidationThrows(inputs)
    THEN [outcome |-> "TypeError",
          value |-> NoValue,
          details |-> <<>>,
          steps |-> {"validate"},
          state |-> [missed EXCEPT !.calculationTimes = RecordCalculation(@)]]
    ELSE Validated(CriticalErrors(validateEnhancedInputs(inputs)))

\* clearCalculationCache
clearCalculationCache(st) ==
    [st EXCEPT !.calculationCache = <<>>,
               !.portfolioCache = <<>>,
               !.waterfallCache = <<>>,
               !.cacheHits = 0,
               !.cacheMisses = 0]

\* ------------------------------------------------------------------------
\* BatchRunner (sequential execution; the swept values are whole numbers)
\* ------------------------------------------------------------------------
Range(field, min, max, step) == [field |-> field, min |-> min, max |-> max, step |-> step]

\* ranges.reduce((total, range) =>
\*     total * (Math.floor((range.max - range.min) / range.step) + 1), 1)
RECURSIVE TotalFrom(_, _, _)
TotalFrom(ranges, i, total) ==
    IF i > Len(ranges) THEN total
    ELSE TotalFrom(ranges, i + 1,
                   total * (((ranges[i].max - ranges[i].min) \div ranges[i].step) + 1))

calculateTotalScenarios(ranges) == TotalFrom(ranges, 1, 1)

\* applyVariations: the simple field assignments, in the order of the entries
RECURSIVE applyVariations(_, _, _)
applyVariations(baseInputs, variations, i) ==
    IF i > Len(variations) THEN baseInputs
    ELSE applyVariations([baseInputs EXCEPT ![variations[i].key] = variations[i].value],
                         variations, i + 1)

\* the scenario pushed for a complete set of variations; its id and name are
\* renderings of the variations
Scenario(baseInputs, variations) ==
    [name |-> variations,
     inputs |-> applyVariations(baseInputs, variations, 1),
     variations |-> variations]

\* generateCombinations(rangeIndex, currentVariations), and its for loop
\* from value on
RECURSIVE generateCombinations(_, _, _, _)
RECURSIVE ForValues(_, _, _, _, _)
generateCombinations(baseInputs, ranges, rangeIndex, currentVariations) ==
    IF rangeIndex > Len(ranges) THEN << Scenario(baseInputs, currentVariations) >>
    ELSE ForValues(baseInputs, ranges, rangeIndex, currentVariations, ranges[rangeIndex].min)

ForValues(baseInputs, ranges, rangeIndex, currentVariations, value) ==
    IF ~(value <= ranges[rangeIndex].max) THEN <<>>
    ELSE generateCombinations(baseInputs, ranges, rangeIndex + 1,
                              MapSet(currentVariations, ranges[rangeIndex].field, value))
         \o ForValues(baseInputs, ranges, rangeIndex, currentVariations,
                      value + ranges[rangeIndex].step)

generateScenarios(baseInputs, ranges) == generateCombinations(baseInputs, ranges, 1, <<>>)

\* A faulty variant: the progress reported is that of a finished batch
Progress_Full(completedScenarios, totalScenarios) ==
    [num |-> totalScenarios * 100, den |-> totalScenarios]

\* (completedScenarios / totalScenarios) * 100, as a fraction
Progress(completedScenarios, totalScenarios) ==
    [num |-> completedScenarios * 100, den |-> totalScenarios]

\* the try block of runSequential after a forecast that returned
Completed(run, scenario, result, totalScenarios) ==
    [run EXCEPT
        !.results = Append(@, [scenarioName |-> scenario.name,
                               variations |-> scenario.variations,
                               result |-> result]),
        !.completedScenarios = @ + 1,
        !.forecastCalls = Append(@, scenario.name),
        !.progressCalls =
            Append(@, [progress |-> Progress(run.completedScenarios + 1, totalScenarios),
                       scenarioName |-> scenario.name])]

\* the catch block of runSequential: the error is logged, the loop goes on
Skipped(run, scenario) ==
    [run EXCEPT !.forecastCalls = Append(@, scenario.name),
                !.failed = Append(@, scenario.name)]

\* runSequential from the i-th scenario on: the runner's fields, the calls
\* of the callbacks and of forecast made so far, and the module state
RECURSIVE RunSequentialFrom(_, _, _, _, _)
RunSequentialFrom(scenarios, i, totalScenarios, run, st) ==
    IF i > Len(scenarios)
    THEN [run |-> [run EXCEPT !.completeCalls = Append(@, run.results)], state |-> st]
    ELSE LET Forecasted(r) ==
                RunSequentialFrom(scenarios, i + 1, totalScenarios,
                                  IF r.outcome = "returned"
                                  THEN Completed(run, scenarios[i], r.value, totalScenarios)
                                  ELSE Skipped(run, scenarios[i]),
                                  r.state)
         IN  Forecasted(buildEnhancedFundForecast(
                            scenarios[i].inputs,
                            IF run.completedScenarios % 50 = 0
                            THEN clearCalculationCache(st) ELSE st))

\* new BatchRunner({baseInputs, ranges, onProgress, onComplete}).run()
BatchRun(baseInputs, ranges, st) ==
    LET Generated(scenarios) ==
            RunSequentialFrom(scenarios, 1, calculateTotalScenarios(ranges),
                              [totalScenarios |-> calculateTotalScenarios(ranges),
                               scenarios |-> scenarios,
                               results |-> <<>>,
                               completedScenarios |-> 0,
                               forecastCalls |-> <<>>,
                               failed |-> <<>>,
                               progressCalls |-> <<>>,
                               completeCalls |-> <<>>],
                              st)
    IN  Generated(generateScenarios(baseInputs, ranges))

\* ------------------------------------------------------------------------
\* CohortEngine.  Money is an exact fraction [n, d] in lowest terms; the
\* cohort valuations (currentValue, realizedValue, capitalRealized) and the
\* snapshots' aggregates are written by the engine and read by none of the
\* steps below, and are left out.  Rates and probabilities are hundredths,
\* allocations are thousandths.
\* ------------------------------------------------------------------------
RECURSIVE GCD(_, _)
GCD(a, b) == IF b = 0 THEN a ELSE GCD(b, a % b)

QOf(n, d) ==
    LET Reduced(g) == [n |-> n \div g, d |-> d \div g]
    IN  IF n = 0 THEN [n |-> 0, d |-> 1] ELSE Reduced(GCD(Abs(n), d))

QAdd(a, b) == QOf(a.n * b.d + b.n * a.d, a.d * b.d)
QSub(a, b) == QOf(a.n * b.d - b.n * a.d, a.d * b.d)
\* a * n / d
QScale(a, n, d) == QOf(a.n * n, a.d * d)
QLeq(a, b) == a.n * b.d <= b.n * a.d
QMin(a, b) == IF QLeq(a, b) THEN a ELSE b
\* Math.floor(a) for a >= 0
QFloor(a) == a.n \div a.d

\* half the distance from the whole number k >= 1 to the double below it,
\* in units of 2^-60
RECURSIVE HalfSpacingBelow(_)
HalfSpacingBelow(k) == IF k <= 1 THEN 64 ELSE 2 * HalfSpacingBelow((k + 1) \div 2)

\* Math.floor(n * p) for a whole n and the double p the literal pct/100
\* denotes, exactly: the product of doubles is below the whole number
\* n * pct / 100 only if the literal's double is below pct/100 by more than
\* rounding to nearest gives back
FloorShare(n, pct) ==
    LET k == (n * pct) \div 100
        Below(exact, double) ==
            LET err100 == 100 * ((exact.hi - double.hi) * TwoTo30 + (exact.lo - double.lo))
                              + exact.rest100
            IN  err100 > 0 /\ n * err100 > 100 * HalfSpacingBelow(k)
    IN  IF (n * pct) % 100 # 0 \/ k = 0 THEN k
        ELSE IF Below(HundredthsParts(pct), DoubleOfHundredths(pct)) THEN k - 1
        ELSE k

CohortStrategy(stage, allocation, avgInvestmentSize) ==
    [stage |-> stage, allocationPct |-> allocation, avgInvestmentSize |-> avgInvestmentSize]

\* reset(): the engine at the start of simulate()
EngineReset ==
    [cohorts |-> <<>>, capitalDeployed |-> QOf(0, 1), capitalRecycled |-> QOf(0, 1)]

\* deployCapital: the loop over the strategies from index i on
RECURSIVE DeployFrom(_, _, _, _, _)
DeployFrom(config, quarter, targetDeployment, i, engine) ==
    IF i > Len(config.stageStrategies) THEN engine
    ELSE LET strategy == config.stageStrategies[i]
             Created(numCompanies) ==
                IF numCompanies > 0
                THEN [engine EXCEPT
                        !.cohorts =
                            MapSet(@, << strategy.stage, quarter >>,
                                   [stage |-> strategy.stage,
                                    vintage |-> quarter,
                                    initialCompanies |-> numCompanies,
                                    currentCompanies |-> numCompanies,
                                    totalInvested |->
                                        QOf(numCompanies * strategy.avgInvestmentSize, 1),
                                    graduates |-> <<>>,
                                    exits |-> Probs(0, 0, 0, 0, 0)]),
                        !.capitalDeployed =
                            QAdd(@, QOf(numCompanies * strategy.avgInvestmentSize, 1))]
                ELSE engine
         IN  DeployFrom(config, quarter, targetDeployment, i + 1,
                        Created(QFloor(QScale(targetDeployment, strategy.allocationPct,
                                              1000 * strategy.avgInvestmentSize))))

deployCapital(config, quarter, engine) ==
    LET remainingCapital ==
            QAdd(QSub(QOf(config.investableCapital, 1), engine.capitalDeployed),
                 engine.capitalRecycled)
        quartersRemaining == config.investmentPeriodQuarters - quarter
    IN  IF quartersRemaining <= 0 \/ remainingCapital.n <= 0 THEN engine
        ELSE DeployFrom(config, quarter, QScale(remainingCapital, 1, quartersRemaining),
                        1, engine)

\* availableReserve > 0, where availableReserve is
\* investableCapital * ratio - (capitalDeployed - investableCapital * (1 - ratio))
hasFollowOnCapacity(config, engine) ==
    ~QLeq(QOf(config.investableCapital, 1), engine.capitalDeployed)

\* capitalDeployed + amount <= investableCapital + capitalRecycled
canInvestFollowOn(config, engine, amount) ==
    QLeq(QAdd(engine.capitalDeployed, amount),
         QAdd(QOf(config.investableCapital, 1), engine.capitalRecycled))

StrategyFor(config, toStage) ==
    IF \E i \in 1..Len(config.stageStrategies) : config.stageStrategies[i].stage = toStage
    THEN << config.stageStrategies[
                CHOOSE i \in 1..Len(config.stageStrategies) :
                    /\ config.stageStrategies[i].stage = toStage
                    /\ \A h \in 1..(i - 1) : config.stageStrategies[h].stage # toStage] >>
    ELSE <<>>

\* processGraduations: the loop over the entries of the row from index j
\* on; st holds the cohort and the engine's capital.
RECURSIVE GraduateFrom(_, _, _, _, _)
GraduateFrom(config, rates, activeCompanies, j, st) ==
    IF j > Len(rates) THEN st
    ELSE LET toStage == rates[j][1]
             FollowedOn(found, followOnAmount) ==
                IF /\ Len(found) > 0
                   /\ hasFollowOnCapacity(config, st.engine)
                   /\ canInvestFollowOn(config, st.engine, followOnAmount)
                THEN [cohort |-> [st.cohort EXCEPT !.totalInvested = QAdd(@, followOnAmount)],
                      engine |-> [st.engine EXCEPT
                                    !.capitalDeployed = QAdd(@, followOnAmount)]]
                ELSE st
             Tracked(graduatingCompanies, found) ==
                IF graduatingCompanies > 0
                THEN LET counted ==
                            [st EXCEPT !.cohort.graduates =
                                MapSet(@, toStage,
                                       (IF MapHas(@, toStage) THEN MapGet(@, toStage) ELSE 0)
                                           + graduatingCompanies)]
                         funded ==
                            FollowedOn(found,
                                       IF Len(found) > 0
                                       THEN QOf(graduatingCompanies
                                                    * found[1].avgInvestmentSize, 2)
                                       ELSE QOf(0, 1))
                     IN  [cohort |-> [funded.cohort EXCEPT
                                        !.graduates = counted.cohort.graduates],
                          engine |-> funded.engine]
                ELSE st
         IN  GraduateFrom(config, rates, activeCompanies, j + 1,
                          Tracked(FloorShare(activeCompanies, rates[j][2]),
                                  StrategyFor(config, toStage)))

processGraduations(config, cohort, engine) ==
    IF cohort.stage \notin DOMAIN config.graduationMatrix
    THEN [cohort |-> cohort, engine |-> engine]
    ELSE GraduateFrom(config, config.graduationMatrix[cohort.stage],
                      cohort.currentCompanies, 1, [cohort |-> cohort, engine |-> engine])

\* the body of the loop of progressCohorts for the cohort at index i
ProgressCohort(config, quarter, i, engine) ==
    LET cohort == engine.cohorts[i].value
        Stored(st) ==
            [st.engine EXCEPT !.cohorts[i] = [key |-> engine.cohorts[i].key,
                                              value |-> st.cohort]]
    IN  IF cohort.currentCompanies <= 0 THEN engine
        ELSE IF quarter - cohort.vintage >= 4 /\ quarter - cohort.vintage <= 20
        THEN Stored(processGraduations(config, cohort, engine))
        ELSE engine

\* progressCohorts: the cohorts at indices lo .. hi - 1 in insertion order,
\* walked as the lower half followed by the upper half
RECURSIVE progressCohorts(_, _, _, _, _)
progressCohorts(config, quarter, lo, hi, engine) ==
    IF hi <= lo THEN engine
    ELSE IF hi = lo + 1 THEN ProgressCohort(config, quarter, lo, engine)
    ELSE CHOOSE upper \in { progressCohorts(config, quarter, (lo + hi) \div 2, hi, lower) :
                               lower \in { progressCohorts(config, quarter, lo,
                                                           (lo + hi) \div 2, engine) } } : TRUE

getMinExitAge(stage) ==
    CASE stage = "Pre-Seed" -> 12
      [] stage = "Seed" -> 16
      [] stage = "Series A" -> 20
      [] stage = "Series B" -> 16
      [] stage = "Series C" -> 12
      [] stage = "Series D+" -> 8
      [] OTHER -> 16

\* Math.min(Math.floor(currentCompanies * exitRate), currentCompanies) with
\* exitRate = 0.05 * Math.min(age / 20, 2), as the exact quotient (the floor
\* of the double product is the same for the cohorts of CohortConfigs)
ExitingCompanies(currentCompanies, age) ==
    Min((currentCompanies * Min(age, 40)) \div 400, currentCompanies)

\* distributeExitOutcomes(companies, probabilities)
distributeExitOutcomes(companies, probabilities) ==
    LET outcomes == [outcome \in {"fail", "low", "med", "high", "mega"} |->
                        FloorShare(companies, probabilities[outcome])]
        distributed == outcomes.fail + outcomes.low + outcomes.med + outcomes.high
                          + outcomes.mega
        remainder == companies - distributed
    IN  IF remainder > 0 THEN [outcomes EXCEPT !.low = @ + remainder] ELSE outcomes

\* the body of the loop of processExits for the cohort at index i
ExitCohort(config, quarter, i, engine) ==
    LET cohort == engine.cohorts[i].value
        age == quarter - cohort.vintage
        Exited(exitingCompanies, outcomes) ==
            LET totalExitValue ==
                    QScale(cohort.totalInvested,
                           outcomes.low * 2 + outcomes.med * 5 + outcomes.high * 20
                               + outcomes.mega * 100,
                           cohort.initialCompanies)
            IN  [engine EXCEPT
                    !.cohorts[i].value.currentCompanies = @ - exitingCompanies,
                    !.cohorts[i].value.exits =
                        [outcome \in DOMAIN @ |-> @[outcome] + outcomes[outcome]],
                    !.capitalRecycled =
                        IF config.recyclingEnabled
                              /\ quarter < config.investmentPeriodQuarters
                        THEN QAdd(@, QMin(totalExitValue,
                                          QSub(QOf(config.investableCapital
                                                       * config.recyclingCap, 100), @)))
                        ELSE @]
        Exiting(exitingCompanies) ==
            IF exitingCompanies > 0
            THEN Exited(exitingCompanies,
                        distributeExitOutcomes(exitingCompanies,
                                               config.exitProbabilityMatrix[cohort.stage]))
            ELSE engine
    IN  IF age < getMinExitAge(cohort.stage) THEN engine
        ELSE IF cohort.stage \notin DOMAIN config.exitProbabilityMatrix
                \/ cohort.currentCompanies <= 0
        THEN engine
        ELSE Exiting(ExitingCompanies(cohort.currentCompanies, age))

\* processExits: the cohorts at indices lo .. hi - 1 in insertion order
RECURSIVE processExits(_, _, _, _, _)
processExits(config, quarter, lo, hi, engine) ==
    IF hi <= lo THEN engine
    ELSE IF hi = lo + 1 THEN ExitCohort(config, quarter, lo, engine)
    ELSE CHOOSE upper \in { processExits(config, quarter, (lo + hi) \div 2, hi, lower) :
                               lower \in { processExits(config, quarter, lo,
                                                        (lo + hi) \div 2, engine) } } : TRUE

\* One pass of the quarter loop of simulate(); run is the engine and the
\* list of the engine's states after each quarter so far.
SimulateQuarter(config, quarter, run) ==
    LET Exits(engine) ==
            processExits(config, quarter, 1, Len(engine.cohorts) + 1, engine)
        Progressed(engine) ==
            Exits(progressCohorts(config, quarter, 1, Len(engine.cohorts) + 1, engine))
        Snapshot(engine) ==
            [engine |-> engine,
             afterQuarter |-> Append(run.afterQuarter, [engine EXCEPT !.cohorts = MapValues(@)])]
    IN  Snapshot(Progressed(IF quarter < config.investmentPeriodQuarters
                            THEN deployCapital(config, quarter, run.engine)
                            ELSE run.engine))

\* simulate(): the quarters lo .. hi - 1 in order
RECURSIVE SimulateQuarters(_, _, _, _)
SimulateQuarters(config, lo, hi, run) ==
    IF hi <= lo THEN run
    ELSE IF hi = lo + 1 THEN SimulateQuarter(config, lo, run)
    ELSE CHOOSE upper \in { SimulateQuarters(config, (lo + hi) \div 2, hi, lower) :
                               lower \in { SimulateQuarters(config, lo, (lo + hi) \div 2,
                                                            run) } } : TRUE

CohortSimulate(config) ==
    SimulateQuarters(config, 0, config.fundLifeQuarters + 1,
                     [engine |-> EngineReset, afterQuarter |-> <<>>]).afterQuarter

\* ------------------------------------------------------------------------
\* State
\* ------------------------------------------------------------------------
VARIABLES
    calculationCache,   \* Map<string, ForecastResult>
    portfolioCache,     \* Map<string, PortfolioCompany[]>
    waterfallCache,     \* Map<string, WaterfallSummary>
    cacheHits,          \* performanceMetrics.cacheHits
    cacheMisses,        \* performanceMetrics.cacheMisses
    calculationTimes,   \* performanceMetrics.calculationTimes.length
    nextObj,            \* identity of the next ForecastResult object created
    calls,              \* number of calls made so far
    last,               \* the last call: arguments, outcome, state before it
    prev,               \* the call before the last one
    portfolioLog,       \* history: (inputs, list) of every buildPortfolioFromStrategy return
    failedInputs,       \* history: inputs of every forecast call that threw
    provider            \* FundProvider: state, forecastResult, timers, calculation in flight

vars == << calculationCache, portfolioCache, waterfallCache, cacheHits, cacheMisses,
           calculationTimes, nextObj, calls, last, prev, portfolioLog, failedInputs,
           provider >>

ModuleState ==
    [calculationCache |-> calculationCache,
     portfolioCache |-> portfolioCache,
     waterfallCache |-> waterfallCache,
     cacheHits |-> cacheHits,
     cacheMisses |-> cacheMisses,
     calculationTimes |-> calculationTimes,
     nextObj |-> nextObj]

SetModuleState(st) ==
    /\ calculationCache' = st.calculationCache
    /\ portfolioCache' = st.portfolioCache
    /\ waterfallCache' = st.waterfallCache
    /\ cacheHits' = st.cacheHits
    /\ cacheMisses' = st.cacheMisses
    /\ calculationTimes' = st.calculationTimes
    /\ nextObj' = st.nextObj

EmptyModuleState ==
    [calculationCache |-> <<>>,
     portfolioCache |-> <<>>,
     waterfallCache |-> <<>>,
     cacheHits |-> 0,
     cacheMisses |-> 0,
     calculationTimes |-> 0,
     nextObj |-> 1]

NoCall ==
    [op |-> "none", inputs |-> BaseInputs, outcome |-> "none", value |-> NoValue,
     details |-> <<>>, steps |-> {}, before |-> EmptyModuleState]

CallRecord(op, inputs, outcome, value, details, steps, st) ==
    [op |-> op, inputs |-> inputs, outcome |-> outcome, value |-> value,
     details |-> details, steps |-> steps, before |-> st]

\* ------------------------------------------------------------------------
\* FundProvider (context/FundContext.tsx).  The provider's state holds the
\* inputs - of which fundSize is the field edited here, the others being those
\* of BaseInputs - with isDirty, isCalculating and calculationProgress;
\* isValid is the memo over validationResults.  calculationTimeout is the
\* debounce timer of calculationTimeoutRef and calculation the promise of a
\* calculateForecast call that has not resolved; both carry the fundSize of
\* the state their closure captured.  forecastResult carries, next to a
\* field of the result, the fundSize it was computed from.
\* ------------------------------------------------------------------------
\* edits made in one behaviour
MaxEdits == 3

NoTimeout == [pending |-> FALSE, fundSize |-> 0]

NoForecastResult == [computedFrom |-> NoQuarter, totalManagementFees |-> 0]

createDefaultState ==
    [fundSize |-> BaseInputs.fundSize,
     isDirty |-> FALSE,
     isCalculating |-> FALSE,
     calculationProgress |-> 0,
     isValid |-> TRUE,
     forecastResult |-> NoForecastResult,
     calculationTimeout |-> NoTimeout,
     calculation |-> NoTimeout,
     edits |-> 0]

ProviderInputs(fundSize) == [BaseInputs EXCEPT !.fundSize = fundSize]

\* validateField('fundSize', value) followed by the isValid memo: the first
\* issue of the field, if there is one, must be a warning
validateField(value) ==
    LET fieldErrors == SelectSeq(validateEnhancedInputs(ProviderInputs(value)),
                                 LAMBDA e : e.field[1] = "fundSize")
    IN  fieldErrors = <<>> \/ fieldErrors[1].severity = "warning"

\* The auto-calculation effect, which runs after every render that changed
\* state (calculateForecast is a new function whenever state is a new
\* object): the cleanup of the run before clears the timer, and a new timer
\* is set if state.isDirty && isValid.
AutoCalculation(p) ==
    [p EXCEPT !.calculationTimeout =
        IF p.isDirty /\ p.isValid
        THEN [pending |-> TRUE, fundSize |-> p.fundSize]
        ELSE NoTimeout]

Init ==
    /\ calculationCache = <<>>
    /\ portfolioCache = <<>>
    /\ waterfallCache = <<>>
    /\ cacheHits = 0
    /\ cacheMisses = 0
    /\ calculationTimes = 0
    /\ nextObj = 1
    /\ calls = 0
    /\ last = NoCall
    /\ prev = NoCall
    /\ portfolioLog = {}
    /\ failedInputs = {}
    /\ provider = createDefaultState

\* forecast(inputs)
Forecast(inputs) ==
    /\ calls < MaxCalls
    /\ \E r \in {buildEnhancedFundForecast(inputs, ModuleState)} :
       /\ SetModuleState(r.state)
       /\ last' = CallRecord("forecast", inputs, r.outcome, r.value, r.details,
                             r.steps, ModuleState)
       /\ failedInputs' = IF r.outcome = "returned" THEN failedInputs
                          ELSE failedInputs \cup {inputs}
       /\ portfolioLog' =
            IF "portfolio" \in r.steps /\ r.outcome = "returned"
            THEN portfolioLog \cup
                    {<< inputs, MapGet(r.state.portfolioCache, PortfolioCacheKey(inputs)) >>}
            ELSE portfolioLog
    /\ prev' = last
    /\ UNCHANGED provider
    /\ calls' = calls + 1

\* a direct call of buildPortfolioFromStrategy(inputs)
BuildPortfolio(inputs) ==
    /\ calls < MaxBuilds
    /\ \E r \in {buildPortfolioFromStrategy(inputs, portfolioCache)} :
       /\ portfolioCache' = r.cache
       /\ last' = CallRecord("buildPortfolio", inputs,
                             IF r.threw THEN "TypeError" ELSE "returned",
                             [obj |-> 0, portfolio |-> r.value], <<>>,
                             IF r.generated THEN {"generate"} ELSE {}, ModuleState)
       /\ portfolioLog' = IF r.threw THEN portfolioLog
                          ELSE portfolioLog \cup {<< inputs, r.value >>}
    /\ prev' = last
    /\ UNCHANGED provider
    /\ calls' = calls + 1
    /\ UNCHANGED << calculationCache, waterfallCache, cacheHits, cacheMisses,
                    calculationTimes, nextObj, failedInputs >>

\* clearCalculationCache()
ClearCaches ==
    /\ SetModuleState(clearCalculationCache(ModuleState))
    /\ last' = CallRecord("clear", BaseInputs, "returned", NoValue, <<>>, {}, ModuleState)
    /\ prev' = last
    /\ UNCHANGED provider
    /\ calls' = calls + 1
    /\ UNCHANGED << portfolioLog, failedInputs >>

Clear == calls < MaxCalls /\ ClearCaches

ClearBetweenBuilds == calls < MaxBuilds /\ ClearCaches

\* a direct call of calculateAmericanWaterfall
Waterfall(totalInvested, totalExitValue, carryPct, hurdleRate) ==
    /\ calls < MaxWaterfallCalls
    /\ \E r \in {calculateAmericanWaterfall(totalInvested, totalExitValue, carryPct,
                                            hurdleRate, waterfallCache)} :
       /\ waterfallCache' = r.cache
       /\ last' = CallRecord("waterfall", BaseInputs, "returned",
                             [obj |-> 0,
                              args |-> << totalInvested, totalExitValue, carryPct, hurdleRate >>,
                              summary |-> r.value],
                             <<>>, {}, ModuleState)
    /\ prev' = last
    /\ UNCHANGED provider
    /\ calls' = calls + 1
    /\ UNCHANGED << calculationCache, portfolioCache, cacheHits, cacheMisses,
                    calculationTimes, nextObj, portfolioLog, failedInputs >>

Next ==
    \/ \E inputs \in Configs : Forecast(inputs)
    \/ Clear

Spec == Init /\ [][Next]_vars

\* ------------------------------------------------------------------------
\* Direct calls of the portfolio generator
\* ------------------------------------------------------------------------
NextPortfolio ==
    \/ \E inputs \in Configs : BuildPortfolio(inputs)
    \/ ClearBetweenBuilds

SpecPortfolio == Init /\ [][NextPortfolio]_vars

\* ------------------------------------------------------------------------
\* Direct calls of the waterfall calculator
\* ------------------------------------------------------------------------
InvestedValues == {0, 100}
ExitValues == {0, 100, 150, 300}
CarryValues == {0, 20}
HurdleValues == {0, 8, 60}

NextWaterfall ==
    \E ti \in InvestedValues, te \in ExitValues, c \in CarryValues, h \in HurdleValues :
        Waterfall(ti, te, c, h)

SpecWaterfall == Init /\ [][NextWaterfall]_vars

\* ------------------------------------------------------------------------
\* Filling the waterfall cache: calls whose arguments differ in
\* totalExitValue only, first calls without a profit, then calls with one.
\* ------------------------------------------------------------------------
FillInvested == 2 * 100

\* a call with a totalExitValue no call before it had
WaterfallDistinct(totalExitValue) ==
    /\ calls < MaxWaterfallFill
    /\ \E r \in {calculateAmericanWaterfall(FillInvested, totalExitValue, 20, 8,
                                            waterfallCache)} :
       /\ waterfallCache' = r.cache
       /\ last' = CallRecord("waterfall", BaseInputs, "returned",
                             [obj |-> 0,
                              args |-> << FillInvested, totalExitValue, 20, 8 >>,
                              summary |-> r.value],
                             <<>>, {}, ModuleState)
    /\ prev' = last
    /\ UNCHANGED provider
    /\ calls' = calls + 1
    /\ UNCHANGED << calculationCache, portfolioCache, cacheHits, cacheMisses,
                    calculationTimes, nextObj, portfolioLog, failedInputs >>

\* totalExitValue <= totalInvested, as long as no call had a profit
WaterfallWithoutProfit ==
    /\ last.op = "waterfall" => last.value.args[2] <= FillInvested
    /\ WaterfallDistinct(calls)

\* totalExitValue > totalInvested
WaterfallWithProfit == WaterfallDistinct(FillInvested + 1 + calls)

NextWaterfallFill == WaterfallWithoutProfit \/ WaterfallWithProfit

SpecWaterfallFill == Init /\ [][NextWaterfallFill]_vars

\* ------------------------------------------------------------------------
\* Filling the calculation cache: forecasts of configurations that differ
\* in fundName only, mixed with repeated requests for the oldest cached
\* configuration and for the configuration evicted last.
\* ------------------------------------------------------------------------
FifoInputs == [BaseInputs EXCEPT !.fundLifeQuarters = 1]

Named(n) == [FifoInputs EXCEPT !.fundName = n]

\* a configuration never forecast before
ForecastNew ==
    /\ nextObj <= MaxFresh
    /\ UNCHANGED calls
    /\ \E inputs \in {Named(nextObj)} :
       \E r \in {buildEnhancedFundForecast(inputs, ModuleState)} :
       /\ SetModuleState(r.state)
       /\ last' = CallRecord("forecast", inputs, r.outcome, r.value, r.details,
                             r.steps, ModuleState)
    /\ prev' = last
    /\ UNCHANGED provider
    /\ UNCHANGED << portfolioLog, failedInputs >>

\* the configuration whose result is the oldest entry of the cache
ForecastOldest ==
    /\ Len(calculationCache) > 0
    /\ cacheHits < MaxProbes
    /\ UNCHANGED calls
    /\ \E inputs \in {Named(calculationCache[1].key[1])} :
       \E r \in {buildEnhancedFundForecast(inputs, ModuleState)} :
       /\ SetModuleState(r.state)
       /\ last' = CallRecord("forecast", inputs, r.outcome, r.value, r.details,
                             r.steps, ModuleState)
    /\ prev' = last
    /\ UNCHANGED provider
    /\ UNCHANGED << portfolioLog, failedInputs >>

\* the configuration whose result the last call evicted
ForecastEvicted ==
    /\ nextObj <= MaxFresh
    /\ Len(last.before.calculationCache) > 0
    /\ ~MapHas(calculationCache, last.before.calculationCache[1].key)
    /\ UNCHANGED calls
    /\ \E inputs \in {Named(last.before.calculationCache[1].key[1])} :
       \E r \in {buildEnhancedFundForecast(inputs, ModuleState)} :
       /\ SetModuleState(r.state)
       /\ last' = CallRecord("forecast", inputs, r.outcome, r.value, r.details,
                             r.steps, ModuleState)
    /\ prev' = last
    /\ UNCHANGED provider
    /\ UNCHANGED << portfolioLog, failedInputs >>

NextFifo == ForecastNew \/ ForecastOldest \/ ForecastEvicted

SpecFifo == Init /\ [][NextFifo]_vars

\* ------------------------------------------------------------------------
\* Direct calls of the exported functions: one call from the initial state
\* ------------------------------------------------------------------------
\* -100 at period 0, zero in between, 100 * (1 + r)^n at period n; r in
\* percent
TwoFlows(r, n) ==
    [j \in 1..(n + 1) |->
        IF j = 1 THEN FInt(-100)
        ELSE IF j = n + 1 THEN FMul(FInt(100), FPow(FNorm(100 + r, -2), n))
        ELSE FInt(0)]

\* calculateIRR(cashFlows)
CalculateIRR(cashFlows) ==
    /\ calls = 0
    /\ \E r \in {calculateIRR(cashFlows)} :
         last' = CallRecord("calculateIRR", BaseInputs, "returned",
                            [obj |-> 0, cashFlows |-> cashFlows, rate |-> r.rate,
                             iterations |-> r.iterations],
                            <<>>, {}, ModuleState)
    /\ prev' = last
    /\ UNCHANGED provider
    /\ calls' = calls + 1
    /\ UNCHANGED << calculationCache, portfolioCache, waterfallCache, cacheHits,
                    cacheMisses, calculationTimes, nextObj, portfolioLog, failedInputs >>

\* calculateIRR on the two-flow list of rate r and horizon n
RoundTripIRR(r, n) ==
    /\ calls = 0
    /\ \E res \in {calculateIRR(TwoFlows(r, n))} :
         last' = CallRecord("roundTripIRR", BaseInputs, "returned",
                            [obj |-> 0, r |-> r, n |-> n, rate |-> res.rate,
                             iterations |-> res.iterations],
                            <<>>, {}, ModuleState)
    /\ prev' = last
    /\ UNCHANGED provider
    /\ calls' = calls + 1
    /\ UNCHANGED << calculationCache, portfolioCache, waterfallCache, cacheHits,
                    cacheMisses, calculationTimes, nextObj, portfolioLog, failedInputs >>

\* stageStrategies of every shape: allocations (hundredths) summing to values
\* around the band, the empty list, elements that are no stage strategy
StrategyLists ==
    LET Allocated(as) ==
            [i \in 1..Len(as) |->
                Strategy(<< "Seed", "Growth", "Series A" >>[i], as[i], 20, 16)]
        NullElement == [kind |-> "null"]
        PartialElement == [kind |-> "partial", stage |-> "Seed"]
    IN  { Allocated(as) : as \in
            { <<98>>, <<99>>, <<100>>, <<101>>, <<102>>,
              <<60, 38>>, <<60, 39>>, <<60, 40>>, <<60, 41>>, <<60, 42>>,
              <<50, 49>>, <<50, 51>>, <<33, 33, 33>>, <<33, 33, 34>>, <<34, 34, 33>>,
              <<10, 20, 70>>, <<30, 30, 30>>, <<>> } }
        \cup { << Strategy("Seed", 100, 20, 16), NullElement >>,
               << Strategy("Seed", 100, 20, 16), PartialElement >>,
               << PartialElement, Strategy("Seed", 99, 20, 16) >>,
               << Strategy("Seed", 60, 0, 16), Strategy("Growth", 40, 30, 20) >> }

\* configurations of every shape: any of fundSize, managementFeeRate and
\* carryPct may hold NaN, stageStrategies may be missing or a plain object
RawInputs ==
    { [BaseInputs EXCEPT !.stageStrategies = ss]
        @@ [notNumbers |-> nn, strategiesKind |-> "array"] :
            ss \in StrategyLists,
            nn \in SUBSET {"fundSize", "managementFeeRate", "carryPct"} }
    \cup
    { [BaseInputs EXCEPT !.stageStrategies = <<>>]
        @@ [notNumbers |-> nn, strategiesKind |-> kind] :
            kind \in {"missing", "object"},
            nn \in SUBSET {"fundSize", "managementFeeRate", "carryPct"} }

\* validateEnhancedInputs(inputs)
Validate(inputs) ==
    /\ calls = 0
    /\ last' = CallRecord("validate", inputs,
                          IF ValidationThrows(inputs) THEN "TypeError" ELSE "returned",
                          [obj |-> 0,
                           errors |-> IF ValidationThrows(inputs) THEN <<>>
                                      ELSE validateEnhancedInputs(inputs)],
                          <<>>, {}, ModuleState)
    /\ prev' = last
    /\ UNCHANGED provider
    /\ calls' = calls + 1
    /\ UNCHANGED << calculationCache, portfolioCache, waterfallCache, cacheHits,
                    cacheMisses, calculationTimes, nextObj, portfolioLog, failedInputs >>

\* five base configurations (two of them with a larger fund, two without
\* failing companies, one with failing and surviving companies side by
\* side), each with every combination of the rates 0, 0.35 and
\* 1 for the three destinations of the Seed row
ProgressInputs ==
    LET SurviveMatrix == [s \in {"Seed", "Growth"} |-> Probs(0, 50, 30, 15, 5)]
        MixedMatrix == [s \in {"Seed", "Growth"} |-> Probs(30, 70, 0, 0, 0)]
    IN  { [b EXCEPT !.graduationMatrix =
                [s \in {"Seed", "Growth"} |->
                    IF s = "Seed"
                    THEN << <<"Series A", ra>>, <<"Series B", rb>>, <<"Series C", rc>> >>
                    ELSE << <<"Series C", 50>> >>]] :
            b \in { BaseInputs, AllFailInputs,
                    [BaseInputs EXCEPT !.exitProbabilityMatrix = SurviveMatrix],
                    [BaseInputs EXCEPT !.exitProbabilityMatrix = SurviveMatrix,
                                        !.fundSize = 300],
                    [BaseInputs EXCEPT !.exitProbabilityMatrix = MixedMatrix,
                                        !.fundSize = 200] },
            ra \in {0, 35, 100}, rb \in {0, 35, 100}, rc \in {0, 35, 100} }

\* The generated portfolio with its company at index exited (if there is one
\* and it is active) marked as exited, a status the PortfolioCompany type
\* allows and the generator never sets.
MarkExited(portfolio, exited) ==
    [i \in 1..Len(portfolio) |->
        IF i = exited /\ portfolio[i].status = "active"
        THEN [portfolio[i] EXCEPT !.status = "exited"]
        ELSE portfolio[i]]

\* simulatePortfolioProgression(portfolio, inputs) on such a portfolio;
\* portfolioAfter is the list passed in as it is when the call has returned
Simulate(inputs, exited) ==
    /\ calls = 0
    /\ \E p \in {MarkExited(GeneratePortfolio(inputs, 1, 0, SEED_PORTFOLIO, <<>>).portfolio,
                             exited)} :
       \E progressed \in {simulatePortfolioProgression(p, inputs)} :
          last' = CallRecord("simulate", inputs, "returned",
                             [obj |-> 0, portfolio |-> p, progressed |-> progressed,
                              portfolioAfter |->
                                  [i \in 1..Len(p) |->
                                      CompanyAfterCopy(p[i], progressed[i])]],
                             <<>>, {}, ModuleState)
    /\ prev' = last
    /\ UNCHANGED provider
    /\ calls' = calls + 1
    /\ UNCHANGED << calculationCache, portfolioCache, waterfallCache, cacheHits,
                    cacheMisses, calculationTimes, nextObj, portfolioLog, failedInputs >>

\* lists of ranges over fundSize and fundLifeQuarters: single points, several
\* points, a step that does not divide the span, and ranges with min > max
RangeLists ==
    LET FundSizeRanges ==
            { Range("fundSize", 100, 100, 100), Range("fundSize", 0, 200, 100),
              Range("fundSize", 100, 300, 100), Range("fundSize", 100, 250, 100),
              Range("fundSize", 200, 100, 100), Range("fundSize", 300, 100, 100) }
        FundLifeRanges ==
            { Range("fundLifeQuarters", 14, 14, 1), Range("fundLifeQuarters", 13, 14, 1),
              Range("fundLifeQuarters", 12, 16, 2), Range("fundLifeQuarters", 14, 12, 1) }
    IN  { <<>> } \cup { <<f>> : f \in FundSizeRanges } \cup { <<q>> : q \in FundLifeRanges }
        \cup { <<f, q>> : f \in FundSizeRanges, q \in FundLifeRanges }

\* one batch run of a new runner
RunBatch(baseInputs, ranges) ==
    /\ calls = 0
    /\ \E r \in {BatchRun(baseInputs, ranges, ModuleState)} :
       /\ SetModuleState(r.state)
       /\ last' = CallRecord("run", baseInputs, "returned",
                             [obj |-> 0, ranges |-> ranges, run |-> r.run],
                             <<>>, {}, ModuleState)
    /\ prev' = last
    /\ UNCHANGED provider
    /\ calls' = calls + 1
    /\ UNCHANGED << portfolioLog, failedInputs >>

\* engine configurations: a two-stage and a one-stage strategy list whose
\* allocations add up to 1, and a two-stage list adding up to 1.005; an
\* investment period of 1, 4 or 12 quarters; with and without graduation
\* rows and recycling; exit rows adding up to 1 and to 1.01
CohortConfigs ==
    LET Strategies ==
            { << CohortStrategy("Seed", 600, 2), CohortStrategy("Series D+", 400, 1) >>,
              << CohortStrategy("Seed", 505, 1), CohortStrategy("Series A", 500, 1) >>,
              << CohortStrategy("Series D+", 1000, 1) >> }
        Rows == { Probs(50, 20, 15, 10, 5), Probs(21, 20, 20, 20, 20) }
        GraduationMatrices ==
            { <<>>,
              [s \in {"Seed"} |-> << <<"Series A", 35>>, <<"Series D+", 20>> >>] }
    IN  { [investableCapital |-> IF Len(ss) = 1 THEN 5000 ELSE IF ss[1].avgInvestmentSize = 2
                                                        THEN 3000 ELSE 1000,
           investmentPeriodQuarters |-> period,
           fundLifeQuarters |-> 24,
           stageStrategies |-> ss,
           graduationMatrix |-> gm,
           exitProbabilityMatrix |->
               [stage \in {"Seed", "Series A", "Series D+"} |-> row],
           followOnReserveRatio |-> 30,
           recyclingEnabled |-> recycling,
           recyclingCap |-> 20] :
          ss \in Strategies, row \in Rows, gm \in GraduationMatrices,
          period \in {1, 4, 12}, recycling \in BOOLEAN }

\* new CohortEngine(config).simulate(); afterQuarter lists the engine's
\* capital and cohorts as they are at the end of each pass of the quarter loop
RunCohortEngine(config) ==
    /\ calls = 0
    /\ \E afterQuarter \in {CohortSimulate(config)} :
          last' = CallRecord("cohortSimulate", BaseInputs, "returned",
                             [obj |-> 0, config |-> config, afterQuarter |-> afterQuarter],
                             <<>>, {}, ModuleState)
    /\ prev' = last
    /\ UNCHANGED provider
    /\ calls' = calls + 1
    /\ UNCHANGED << calculationCache, portfolioCache, waterfallCache, cacheHits,
                    cacheMisses, calculationTimes, nextObj, portfolioLog, failedInputs >>

\* distributeExitOutcomes(companies, probabilities) on its own
DistributeExitOutcomes(companies, probabilities) ==
    /\ calls = 0
    /\ last' = CallRecord("distributeExitOutcomes", BaseInputs, "returned",
                          [obj |-> 0, companies |-> companies,
                           probabilities |-> probabilities,
                           outcomes |-> distributeExitOutcomes(companies, probabilities)],
                          <<>>, {}, ModuleState)
    /\ prev' = last
    /\ UNCHANGED provider
    /\ calls' = calls + 1
    /\ UNCHANGED << calculationCache, portfolioCache, waterfallCache, cacheHits,
                    cacheMisses, calculationTimes, nextObj, portfolioLog, failedInputs >>

\* buildEnhancedFundForecast(inputs) from empty caches, with the IRR
\* computation of every timeline point
ForecastIrr(inputs) ==
    /\ calls = 0
    /\ \E r \in {buildEnhancedFundForecast(inputs, ModuleState)} :
       /\ r.outcome = "returned"
       /\ SetModuleState(r.state)
       /\ last' = CallRecord("forecastIrr", inputs, r.outcome,
                             [obj |-> r.value.obj,
                              totalExitValue |-> r.value.totalExitValue,
                              timeline |-> r.value.timeline,
                              irr |-> [k \in 1..Len(r.value.timeline) |->
                                          PointIrr(inputs, r.value.totalExitValue,
                                                   r.value.timeline[k])]],
                             r.details, r.steps, ModuleState)
    /\ prev' = last
    /\ UNCHANGED provider
    /\ calls' = calls + 1
    /\ UNCHANGED << portfolioLog, failedInputs >>

\* the cash-flow lists of the first disjunct: without an inflow, without an
\* outflow, without any flow, and with both; the forecasts with their IRR
\* computation have fund lives before and after the quarter distributions
\* start, where distributionsPerQuarter is a finite number
NextDirect ==
    \/ \E ns \in { <<>>, <<100, 200, 50>>, <<-100, -50>>, <<0, 0, 0>>, <<0, 100>>,
                   <<-100, 0>>, <<-100, 60, 60>>, <<100, -60, -60>> } :
          CalculateIRR([j \in 1..Len(ns) |-> FInt(ns[j])])
    \/ \E r \in {-50, -25, 0, 10, 25, 50, 100, 200},
          n \in {1, 2, 3, 4, 6, 8, 12, 16, 20, 30, 39, 40} : RoundTripIRR(r, n)
    \/ \E inputs \in RawInputs : Validate(inputs)
    \/ \E inputs \in ProgressInputs, exited \in 0..2 : Simulate(inputs, exited)
    \/ \E b \in {BaseInputs, AllFailInputs, HighFeeInputs, LongInvestInputs},
          n \in {4, 13, 14, 16, 20} :
          ForecastIrr([b EXCEPT !.fundLifeQuarters = n])
    \/ \E config \in CohortConfigs : RunCohortEngine(config)
    \/ \E companies \in {1, 3, 7, 10, 50, 99, 100, 200},
          probabilities \in { Probs(50, 20, 15, 10, 5), Probs(20, 20, 20, 20, 20),
                              Probs(100, 0, 0, 0, 0), Probs(58, 29, 13, 0, 0),
                              Probs(33, 33, 33, 0, 0), Probs(21, 20, 20, 20, 20) } :
          DistributeExitOutcomes(companies, probabilities)
    \/ \E baseInputs \in {BaseInputs, AllFailInputs, NoRowInputs}, ranges \in RangeLists :
          RunBatch(baseInputs, ranges)

SpecDirect == Init /\ [][NextDirect]_vars

\* ------------------------------------------------------------------------
\* The FundProvider: edits of fundSize, the debounce timer, the progress
\* interval and the resolution of the calculation.  The calculation resolves
\* 500 ms after it started and a debounce timer fires 1000 ms after the last
\* render that changed state, so no timer fires while a calculation is in
\* flight; the fifth tick of the progress interval and the resolution are
\* due in the same millisecond.
\* ------------------------------------------------------------------------
\* updateFundParameter('fundSize', value)
updateFundParameter(value) ==
    /\ provider.edits < MaxEdits
    /\ provider' = AutoCalculation([provider EXCEPT !.fundSize = value,
                                                    !.isDirty = TRUE,
                                                    !.isValid = validateField(value),
                                                    !.edits = @ + 1])
    /\ UNCHANGED << calculationCache, portfolioCache, waterfallCache, cacheHits,
                    cacheMisses, calculationTimes, nextObj, calls, last, prev,
                    portfolioLog, failedInputs >>

\* the debounce timer fires: calculateForecast() of the render that set it,
\* up to its await
DebounceFires ==
    /\ provider.calculationTimeout.pending
    /\ ~provider.calculation.pending
    /\ provider' = AutoCalculation([provider EXCEPT
                        !.isCalculating = TRUE,
                        !.calculationProgress = 0,
                        !.calculation = provider.calculationTimeout])
    /\ UNCHANGED << calculationCache, portfolioCache, waterfallCache, cacheHits,
                    cacheMisses, calculationTimes, nextObj, calls, last, prev,
                    portfolioLog, failedInputs >>

\* a tick of progressInterval
ProgressTick ==
    /\ provider.calculation.pending
    /\ provider.calculationProgress < 50
    /\ provider' = AutoCalculation([provider EXCEPT
                        !.calculationProgress = Min(@ + 10, 90)])
    /\ UNCHANGED << calculationCache, portfolioCache, waterfallCache, cacheHits,
                    cacheMisses, calculationTimes, nextObj, calls, last, prev,
                    portfolioLog, failedInputs >>

\* the promise resolves: buildEnhancedFundForecast(state) on the state the
\* closure captured, then the rest of calculateForecast
CalculationResolves ==
    /\ provider.calculation.pending
    /\ provider.calculationProgress >= 40
    /\ provider' =
          IF \E i \in 1..Len(validateEnhancedInputs(ProviderInputs(provider.calculation.fundSize))) :
                validateEnhancedInputs(ProviderInputs(provider.calculation.fundSize))[i].severity
                    = "error"
          THEN AutoCalculation([provider EXCEPT !.isCalculating = FALSE,
                                                !.calculationProgress = 0,
                                                !.calculation = NoTimeout])
          ELSE AutoCalculation([provider EXCEPT
                    !.forecastResult =
                        [computedFrom |-> provider.calculation.fundSize,
                         totalManagementFees |->
                            TotalManagementFees(ProviderInputs(provider.calculation.fundSize))],
                    !.isCalculating = FALSE,
                    !.calculationProgress = 100,
                    !.isDirty = FALSE,
                    !.calculation = NoTimeout])
    /\ UNCHANGED << calculationCache, portfolioCache, waterfallCache, cacheHits,
                    cacheMisses, calculationTimes, nextObj, calls, last, prev,
                    portfolioLog, failedInputs >>

NextProvider ==
    \/ \E value \in {0, 100, 200, 300} : updateFundParameter(value)
    \/ DebounceFires
    \/ ProgressTick
    \/ CalculationResolves

SpecProvider == Init /\ [][NextProvider]_vars

\* ------------------------------------------------------------------------
\* Properties
\* ------------------------------------------------------------------------
ErrorIssues(inputs) ==
    SelectSeq(validateEnhancedInputs(inputs), LAMBDA e : e.severity = "error")

PipelineSteps == {"portfolio", "generate", "simulate", "waterfall", "timeline"}

\* C1: a forecast call whose configuration has an error-severity validation
\* issue raises a FundModelError carrying exactly the error-severity issues,
\* and runs no step after validation: no portfolio, no simulation, no
\* waterfall, no timeline, and the portfolio and waterfall caches are
\* untouched - whatever earlier calls left in the caches.
C1_InvalidInputsFailFast ==
    (last.op = "forecast" /\ ErrorIssues(last.inputs) # <<>>) =>
        /\ last.outcome = "FundModelError"
        /\ last.details = ErrorIssues(last.inputs)
        /\ last.steps \cap PipelineSteps = {}
        /\ portfolioCache = last.before.portfolioCache
        /\ waterfallCache = last.before.waterfallCache

C1_Witness ==
    /\ last.op = "forecast"
    /\ ErrorIssues(last.inputs) # <<>>
    /\ last.outcome = "FundModelError"
    /\ Len(last.before.calculationCache) > 0
    /\ Len(last.before.portfolioCache) > 0

\* C2: when a forecast call that returned is followed at once by a forecast
\* call with the same configuration, the second call returns the very same
\* object, is a cache hit (cacheHits one more, cacheMisses unchanged, no step
\* of the pipeline run) and the cache hit rate after it is strictly greater
\* than before it.
C2_CacheIdempotence ==
    (/\ last.op = "forecast"
     /\ prev.op = "forecast"
     /\ prev.outcome = "returned"
     /\ last.inputs = prev.inputs) =>
        /\ last.outcome = "returned"
        /\ last.value.obj = prev.value.obj
        /\ last.value = prev.value
        /\ last.steps = {}
        /\ cacheHits = last.before.cacheHits + 1
        /\ cacheMisses = last.before.cacheMisses
        /\ getPerformanceMetrics(cacheHits, cacheMisses, calculationCache).cacheHitRate
             > getPerformanceMetrics(last.before.cacheHits, last.before.cacheMisses,
                                     last.before.calculationCache).cacheHitRate

C2_Witness ==
    /\ last.op = "forecast"
    /\ prev.op = "forecast"
    /\ prev.outcome = "returned"
    /\ "timeline" \in prev.steps
    /\ last.inputs = prev.inputs
    /\ last.outcome = "returned"
    /\ calls = 3

\* C3: a forecast call that fails leaves calculationCache exactly as it was,
\* and a forecast call with a configuration that failed before fails again.
C3_FailedForecastLeavesCache ==
    /\ (last.op = "forecast" /\ last.outcome # "returned") =>
            calculationCache = last.before.calculationCache
    /\ (last.op = "forecast" /\ last.outcome = "returned") =>
            last.inputs \notin failedInputs

\* C4: calculationCache never holds more than CACHE_SIZE_LIMIT entries; a
\* cache hit leaves the cache as it was; a new result is appended after the
\* entries present, and when CACHE_SIZE_LIMIT entries were present exactly the
\* first of them - the one inserted earliest - is dropped.
C4_BoundedFifoCache ==
    /\ Len(calculationCache) <= CACHE_SIZE_LIMIT
    /\ last.op = "forecast" =>
        LET before == last.before.calculationCache
            entry  == [key |-> CalculationCacheKey(last.inputs), value |-> last.value]
        IN  IF MapHas(before, entry.key) \/ last.outcome # "returned"
            THEN calculationCache = before
            ELSE IF Len(before) = CACHE_SIZE_LIMIT
            THEN calculationCache = Append(Tail(before), entry)
            ELSE calculationCache = Append(before, entry)

C4_Witness ==
    /\ last.op = "forecast"
    /\ last.outcome = "returned"
    /\ Len(last.before.calculationCache) = CACHE_SIZE_LIMIT
    /\ ~MapHas(last.before.calculationCache, CalculationCacheKey(last.inputs))
    /\ cacheHits > 0
    /\ Len(calculationCache) = CACHE_SIZE_LIMIT

SameResult(a, b) == [a EXCEPT !.obj = 0] = [b EXCEPT !.obj = 0]

\* C5: the result a forecast call returns is, apart from the identity of the
\* object, the result the same call computes when all caches are empty.
C5_ResultDependsOnlyOnInputs ==
    (last.op = "forecast" /\ last.outcome = "returned") =>
        \A fresh \in {buildEnhancedFundForecast(last.inputs, EmptyModuleState)} :
            /\ fresh.outcome = "returned"
            /\ SameResult(last.value, fresh.value)

\* C6: the final LP and GP proceeds add up to the total exit value; and
\* without a profit the LP gets the whole exit value, the GP nothing, there
\* is no carry and no preferred return, and the return of capital is the
\* smaller of exit value and invested capital.
C6_WaterfallConservation ==
    last.op = "waterfall" =>
        LET totalInvested == last.value.args[1]
            totalExitValue == last.value.args[2]
            w == last.value.summary
        IN  /\ w.finalLpProceeds + w.finalGpProceeds = totalExitValue * WaterfallDen
            /\ totalExitValue <= totalInvested =>
                /\ w.finalLpProceeds = totalExitValue * WaterfallDen
                /\ w.finalGpProceeds = 0
                /\ w.gpCarry = 0
                /\ w.lpPreferredReturn = 0
                /\ w.lpReturnOfCapital = Min(totalExitValue, totalInvested) * WaterfallDen

\* a call with a profit below the hurdle, answered from the cache
C6_Witness ==
    /\ last.op = "waterfall"
    /\ prev.op = "waterfall"
    /\ prev.value.args = last.value.args
    /\ last.value.args[2] > last.value.args[1]
    /\ last.value.summary.lpCarry < 0
    /\ last.value.summary.lpPreferredReturn > 0

\* C7: at every point of the timeline a forecast returns, tvpi = dpi + rvpi
\* with dpi = cumulativeDistributions / cumulativeContributions and rvpi =
\* nav / cumulativeContributions (0 when nothing is contributed); the tvpi,
\* dpi and rvpi of the result are those of the last point.  A NaN equals
\* nothing; an infinite dpi with a finite rvpi gives the same infinite tvpi.
C7_TvpiDecomposition ==
    (last.op = "forecast" /\ last.outcome = "returned") =>
        LET t == last.value.timeline IN
        /\ \A i \in 1..Len(t) :
            /\ t[i].special # "NaN"
            /\ t[i].tvpi = t[i].dpi + t[i].rvpi
            /\ t[i].dpi = IF t[i].cumulativeContributions > 0
                          THEN Ratio(t[i].cumulativeDistributions,
                                     t[i].cumulativeContributions)
                          ELSE 0
            /\ t[i].rvpi = IF t[i].cumulativeContributions > 0
                           THEN Ratio(t[i].nav, t[i].cumulativeContributions)
                           ELSE 0
        /\ Len(t) > 0 =>
            /\ last.value.special = t[Len(t)].special
            /\ last.value.tvpi = t[Len(t)].tvpi
            /\ last.value.dpi = t[Len(t)].dpi
            /\ last.value.rvpi = t[Len(t)].rvpi
        /\ last.value.tvpi = last.value.dpi + last.value.rvpi

\* C8: the timeline of a forecast has fundLifeQuarters + 1 points, point i is
\* quarter i, the whole fund size is contributed at quarter 0 and nothing
\* afterwards, and cumulative contributions and distributions never decrease
\* (no number is less than or equal to a NaN).
C8_TimelineShape ==
    (last.op = "forecast" /\ last.outcome = "returned") =>
        LET t == last.value.timeline
            den == TimelineDen(last.inputs)
        IN  /\ Len(t) = last.inputs.fundLifeQuarters + 1
            /\ \A i \in 1..Len(t) :
                /\ t[i].quarter = i - 1
                /\ t[i].contributions = IF i = 1 THEN last.inputs.fundSize * den ELSE 0
                /\ t[i].cumulativeContributions = last.inputs.fundSize * den
            /\ \A i \in 1..(Len(t) - 1) :
                /\ t[i].cumulativeContributions <= t[i + 1].cumulativeContributions
                /\ t[i + 1].special # "NaN"
                /\ t[i + 1].special = "none" =>
                        /\ t[i].special = "none"
                        /\ t[i].cumulativeDistributions <= t[i + 1].cumulativeDistributions

\* C9: two returns of buildPortfolioFromStrategy for the same configuration
\* are the same company list.
C9_SameInputsSamePortfolio ==
    \A a \in portfolioLog : \A b \in portfolioLog : a[1] = b[1] => a[2] = b[2]

AllStagesFail(inputs) ==
    \A i \in 1..Len(inputs.stageStrategies) :
        /\ inputs.stageStrategies[i].stage \in DOMAIN inputs.exitProbabilityMatrix
        /\ inputs.exitProbabilityMatrix[inputs.stageStrategies[i].stage].fail = 100

\* C10: when every stage's failure probability is 1 the forecast has
\* grossMoic = 0, gpCarry = 0 and netMoic = 0.
C10_ZeroProfit ==
    (last.op = "forecast" /\ last.outcome = "returned" /\ AllStagesFail(last.inputs)) =>
        /\ last.value.grossMoic = 0
        /\ last.value.waterfallSummary.gpCarry = 0
        /\ last.value.netMoic = 0

\* C11: calculateIRR returns exactly 0, and runs no Newton-Raphson
\* iteration, when the cash-flow list is empty, has no strictly positive
\* flow or has no strictly negative flow.
C11_IrrDegenerateIsZero ==
    last.op = "calculateIRR" =>
        LET cf == last.value.cashFlows IN
        (\/ Len(cf) = 0
         \/ \A j \in 1..Len(cf) : cf[j].m <= 0
         \/ \A j \in 1..Len(cf) : cf[j].m >= 0) =>
            /\ last.value.rate = FInt(0)
            /\ last.value.iterations = 0

\* the all-positive list [100, 200, 50]
C11_Witness ==
    /\ last.op = "calculateIRR"
    /\ Len(last.value.cashFlows) = 3
    /\ \A j \in 1..3 : last.value.cashFlows[j].m > 0
    /\ last.value.rate = FInt(0)
    /\ last.value.iterations = 0

\* C12: a forecast call whose configuration draws only warning-severity
\* validation issues (management fee rate outside [0, 0.1], carry outside
\* [0, 0.5], low reserves) does not raise: it returns a result, and the
\* calculation cache holds that result under the configuration's key. Every
\* stage named by a strategy has its row in the configuration's exit
\* probability matrix (the other case is C14's).
HasAllExitRows(inputs) ==
    \A i \in 1..Len(inputs.stageStrategies) :
        inputs.stageStrategies[i].stage \in DOMAIN inputs.exitProbabilityMatrix

C13_ValidationNeverRaises ==
    last.op = "validate" =>
        LET ReturnedCodes == {last.value.errors[i].code : i \in 1..Len(last.value.errors)}
        IN
        /\ last.outcome = "returned"
        /\ StrategiesKind(last.inputs) # "array" =>
                "MISSING_STAGE_STRATEGIES" \in ReturnedCodes
        /\ (\E i \in 1..Len(last.inputs.stageStrategies) :
                ~isValidStageStrategy(last.inputs.stageStrategies[i])) =>
                "INVALID_STAGE_STRATEGY" \in ReturnedCodes
        /\ ~isValidNumber(last.inputs, "fundSize") => "INVALID_FUND_SIZE" \in ReturnedCodes
        /\ ~isValidNumber(last.inputs, "managementFeeRate") =>
                "INVALID_MGMT_FEE" \in ReturnedCodes
        /\ ~isValidNumber(last.inputs, "carryPct") => "INVALID_CARRY" \in ReturnedCodes

\* C15: validateEnhancedInputs reports INVALID_ALLOCATION_SUM exactly when the
\* allocations of the stage strategies sum to a value outside [0.99, 1.01].
C15_AllocationSumBand ==
    (/\ last.op = "validate"
     /\ last.outcome = "returned"
     /\ Len(last.inputs.stageStrategies) > 0) =>
        LET AllocationHundredths(ss) == SumAlloc(SelectSeq(ss, isValidStageStrategy), 1)
        IN
        ((\E i \in 1..Len(last.value.errors) :
                last.value.errors[i].code = "INVALID_ALLOCATION_SUM")
            <=> (\/ AllocationHundredths(last.inputs.stageStrategies) < 99
                 \/ AllocationHundredths(last.inputs.stageStrategies) > 101))

\* C14: a forecast call whose configuration passes validation but names, in
\* a stage strategy, a stage without a row in its exit probability matrix or
\* in its graduation matrix raises the structured FundModelError, and the
\* calculation cache holds nothing for the configuration.
HasAllGraduationRows(inputs) ==
    \A i \in 1..Len(inputs.stageStrategies) :
        inputs.stageStrategies[i].stage \in DOMAIN inputs.graduationMatrix

C14_MissingRowRaisesStructured ==
    (/\ last.op = "forecast"
     /\ ErrorIssues(last.inputs) = <<>>
     /\ ~(HasAllExitRows(last.inputs) /\ HasAllGraduationRows(last.inputs))) =>
        /\ last.outcome = "FundModelError"
        /\ ~MapHas(calculationCache, CalculationCacheKey(last.inputs))

\* C16: a batch run over ranges with positive steps generates as many
\* scenarios as totalScenarios, the product over the ranges of
\* floor((max - min) / step) + 1 used for progress, one per grid point - every
\* swept value inside its range, no two scenarios alike - and calls forecast
\* once per scenario in that order; ranges with min > max included.
C16_OneScenarioPerGridPoint ==
    last.op = "run" =>
        LET Names(xs) == [i \in 1..Len(xs) |-> xs[i].name]
            run == last.value.run
            ranges == last.value.ranges
        IN  /\ run.totalScenarios = calculateTotalScenarios(ranges)
            /\ Len(run.scenarios) = run.totalScenarios
            /\ run.forecastCalls = Names(run.scenarios)
            /\ \A i, j \in 1..Len(run.scenarios) :
                    i # j => run.scenarios[i].variations # run.scenarios[j].variations
            /\ \A i \in 1..Len(run.scenarios) : \A k \in 1..Len(ranges) :
                    /\ run.scenarios[i].variations[k].key = ranges[k].field
                    /\ run.scenarios[i].variations[k].value >= ranges[k].min
                    /\ run.scenarios[i].variations[k].value <= ranges[k].max
                    /\ (run.scenarios[i].variations[k].value - ranges[k].min)
                            % ranges[k].step = 0

C18_IrrRoundTrip ==
    last.op = "roundTripIRR" =>
        /\ last.value.iterations <= maxIterations
        /\ ~FLess(FNorm(1, -2),
                  FAbs(FSub(last.value.rate, FNorm(last.value.r, -2))))

\* C19: one call of simulatePortfolioProgression returns every company
\* either with investments and stage unchanged, or with exactly one follow-on
\* investment appended and currentStage set to that investment's stage, a
\* destination of the row of its former stage; the destination has a positive
\* rate and no destination before it in the row is certain, so no later
\* destination is applied after a success. Only active companies graduate; an
\* active company with a certain destination in its row does graduate, and a
\* company whose row has only zero rates does not.
Unchanged(c, u) == u.investments = c.investments /\ u.currentStage = c.currentStage

GraduatedTo(c, u, row, k) ==
    /\ Len(u.investments) = Len(c.investments) + 1
    /\ SubSeq(u.investments, 1, Len(c.investments)) = c.investments
    /\ u.investments[Len(u.investments)].isFollowOn
    /\ u.investments[Len(u.investments)].stage = row[k][1]
    /\ u.currentStage = row[k][1]

C19_GraduatesAtMostOnce ==
    last.op = "simulate" =>
        /\ Len(last.value.progressed) = Len(last.value.portfolio)
        /\ \A i \in 1..Len(last.value.portfolio) :
            LET c == last.value.portfolio[i]
                u == last.value.progressed[i]
                row == GraduationRates(last.inputs, c.currentStage)
            IN  /\ \/ Unchanged(c, u)
                   \/ \E k \in 1..Len(row) :
                        /\ GraduatedTo(c, u, row, k)
                        /\ c.status = "active"
                        /\ row[k][2] > 0
                        /\ \A before \in 1..(k - 1) : row[before][2] < 100
                /\ (c.status = "active" /\ \E k \in 1..Len(row) : row[k][2] = 100)
                        => ~Unchanged(c, u)
                /\ (\A k \in 1..Len(row) : row[k][2] = 0) => Unchanged(c, u)

\* one company graduates to the second destination of its row while the
\* third is certain, and an active company of the call stays as it was
C19_Witness ==
    /\ last.op = "simulate"
    /\ \E i \in 1..Len(last.value.portfolio) :
        LET row == GraduationRates(last.inputs, last.value.portfolio[i].currentStage)
        IN  /\ Len(row) = 3
            /\ row[3][2] = 100
            /\ GraduatedTo(last.value.portfolio[i], last.value.progressed[i], row, 2)
    /\ \E i \in 1..Len(last.value.portfolio) :
        /\ last.value.portfolio[i].status = "active"
        /\ Unchanged(last.value.portfolio[i], last.value.progressed[i])

\* C20: every follow-on investment added by simulatePortfolioProgression has
\* an amount between 0.5 and 1.5 times the company's initial check and is
\* dated 4 to 8 quarters after the investment before it.
C20_FollowOnSizeAndDate ==
    last.op = "simulate" =>
        \A i \in 1..Len(last.value.progressed) :
            LET investments == last.value.progressed[i].investments IN
            \A k \in 2..Len(investments) :
                investments[k].isFollowOn =>
                    /\ 2 * investments[k].amount >= investments[1].amount
                    /\ 2 * investments[k].amount <= 3 * investments[1].amount
                    /\ investments[k].quarter - investments[k - 1].quarter >= 4
                    /\ investments[k].quarter - investments[k - 1].quarter <= 8

C22_IrrFlowsIncludeNav ==
    last.op = "forecastIrr" =>
        \A k \in 1..Len(last.value.irr) :
            LET p == last.value.irr[k]
                den == TimelineDen(last.inputs)
                fee == FRatio(QuarterlyMgmtFee(last.inputs), FeeDen)
            IN  /\ p.quarter = k - 1
                /\ Len(p.cashFlows) = k
                /\ Len(p.netCashFlows) = k
                /\ p.cashFlows[1] = -(last.inputs.fundSize * den)
                /\ \A i \in 2..k :
                        p.cashFlows[i] =
                            last.value.timeline[i].distributions
                                + (IF i = k THEN p.nav ELSE 0)
                /\ \A i \in 1..k :
                        p.netCashFlows[i] =
                            IF i = 1 THEN FRatio(p.cashFlows[i], den)
                            ELSE FSub(FRatio(p.cashFlows[i], den), fee)
                /\ (p.quarter < distributionStartQuarter /\ p.nav > 0) =>
                        /\ \E i \in 1..k : p.cashFlows[i] < 0
                        /\ \E i \in 1..k : p.cashFlows[i] > 0

\* C23: the distributions of a timeline are totalExitValue spread evenly over
\* the quarters from quarter 12 to fundLifeQuarters (fundLifeQuarters > 12):
\* every distribution after the start is the same amount, the distributions
\* add up to totalExitValue, the last point's cumulativeDistributions is
\* totalExitValue and no point's cumulativeDistributions exceeds it.
C23_DistributionsSumToExitValue ==
    (last.op = "forecast" /\ last.outcome = "returned"
        /\ last.inputs.fundLifeQuarters > distributionStartQuarter) =>
        LET t == last.value.timeline
            total == last.value.totalExitValue * TimelineDen(last.inputs)
        IN  /\ \A i \in 1..Len(t) :
                /\ t[i].special = "none"
                /\ t[i].quarter < distributionStartQuarter => t[i].distributions = 0
                /\ t[i].quarter >= distributionStartQuarter =>
                        t[i].distributions = t[Len(t)].distributions
                /\ t[i].cumulativeDistributions <= total
            /\ SumField(t, "distributions", 1) = total
            /\ t[Len(t)].cumulativeDistributions = total

\* C24: for every exiting count n and every exit-probability row that is a
\* distribution (each bucket in [0, 1], the sum within 1% of 1),
\* distributeExitOutcomes gives every bucket but low the floor of n times its
\* probability, gives low its floor and the whole remainder, and returns
\* counts that add up to n; and after every quarter of a simulation each
\* cohort's current companies and five exit counts add up to its initial
\* companies.
C24_ExitCountsConserved ==
    LET Buckets == {"fail", "low", "med", "high", "mega"}
        Total(r) == r.fail + r.low + r.med + r.high + r.mega
        IsDistribution(row) ==
            /\ \A b \in Buckets : row[b] >= 0 /\ row[b] <= 100
            /\ Total(row) >= 99 /\ Total(row) <= 101
    IN  /\ (last.op = "distributeExitOutcomes" /\ IsDistribution(last.value.probabilities)) =>
            /\ \A b \in Buckets \ {"low"} :
                    last.value.outcomes[b]
                        = FloorShare(last.value.companies, last.value.probabilities[b])
            /\ last.value.outcomes.low
                    >= FloorShare(last.value.companies, last.value.probabilities.low)
            /\ Total(last.value.outcomes) = last.value.companies
        /\ (last.op = "cohortSimulate"
                /\ \A stage \in DOMAIN last.value.config.exitProbabilityMatrix :
                        IsDistribution(last.value.config.exitProbabilityMatrix[stage])) =>
            \A q \in 1..Len(last.value.afterQuarter) :
                \A i \in 1..Len(last.value.afterQuarter[q].cohorts) :
                    LET cohort == last.value.afterQuarter[q].cohorts[i]
                    IN  cohort.currentCompanies + Total(cohort.exits)
                            = cohort.initialCompanies

\* C25: after every quarter of a simulation on a valid configuration
\* (allocations adding up to 1 within 1%) capitalDeployed is at most
\* investableCapital + capitalRecycled, capitalRecycled is at most
\* investableCapital * recyclingCap, and capitalRecycled is 0 when recycling
\* is disabled.
C25_DeploymentWithinCapital ==
    LET Allocated(ss) ==
            IF Len(ss) = 1 THEN ss[1].allocationPct
            ELSE ss[1].allocationPct + ss[2].allocationPct
    IN  (last.op = "cohortSimulate"
            /\ Allocated(last.value.config.stageStrategies) >= 990
            /\ Allocated(last.value.config.stageStrategies) <= 1010) =>
            \A q \in 1..Len(last.value.afterQuarter) :
                LET engine == last.value.afterQuarter[q]
                    config == last.value.config
                IN  /\ QLeq(engine.capitalDeployed,
                            QAdd(QOf(config.investableCapital, 1), engine.capitalRecycled))
                    /\ QLeq(engine.capitalRecycled,
                            QOf(config.investableCapital * config.recyclingCap, 100))
                    /\ ~config.recyclingEnabled => engine.capitalRecycled.n = 0

\* C29: after every quarter of a simulation the per-destination graduation
\* counts of every cohort add up to at most its initial companies: no
\* company is counted as graduating twice.
C29_CohortGraduatesOnce ==
    LET RECURSIVE Graduated(_, _)
        Graduated(graduates, i) ==
            IF i > Len(graduates) THEN 0
            ELSE graduates[i].value + Graduated(graduates, i + 1)
    IN  last.op = "cohortSimulate" =>
            \A q \in 1..Len(last.value.afterQuarter) :
                \A i \in 1..Len(last.value.afterQuarter[q].cohorts) :
                    LET cohort == last.value.afterQuarter[q].cohorts[i]
                    IN  Graduated(cohort.graduates, 1) <= cohort.initialCompanies

\* C26: calculationCache, portfolioCache and waterfallCache each hold at
\* most CACHE_SIZE_LIMIT entries after any sequence of calls; waterfallCache
\* in particular after any sequence of calculateAmericanWaterfall calls with
\* distinct arguments, with or without a profit.
C26_EveryCacheBounded ==
    /\ Len(calculationCache) <= CACHE_SIZE_LIMIT
    /\ Len(portfolioCache) <= CACHE_SIZE_LIMIT
    /\ Len(waterfallCache) <= CACHE_SIZE_LIMIT

\* C27: for a configuration that passes validation, the totalInvested of
\* the forecast - initial checks and follow-ons of all companies - is at most
\* the investable capital (fundSize less the total management fees), and so
\* at most fundSize.
C27_InvestedWithinInvestable ==
    (last.op = "forecast" /\ last.outcome = "returned") =>
        /\ last.value.totalInvested * 10000 <= InvestableCapital(last.inputs)
        /\ last.value.totalInvested <= last.inputs.fundSize

\* C28: in the portfolio of a forecast every company that has an
\* exitQuarter has each of its investments - the initial check and any
\* follow-on - dated at a quarter not later than that exitQuarter.
C28_NoInvestmentAfterExit ==
    (last.op = "forecast" /\ last.outcome = "returned") =>
        \A i \in 1..Len(last.value.portfolio) :
            LET company == last.value.portfolio[i]
            IN  company.exitQuarter # NoQuarter =>
                    \A k \in 1..Len(company.investments) :
                        company.investments[k].quarter <= company.exitQuarter

\* C30: whenever the provider is quiescent - isCalculating false, isDirty
\* false and no recalculation timer pending - the forecastResult displayed
\* was computed from the inputs the state holds: an edit made while a
\* calculation was in flight has left isDirty true or a timer pending.
C30_QuiescentResultIsCurrent ==
    (/\ ~provider.isCalculating
     /\ ~provider.isDirty
     /\ ~provider.calculationTimeout.pending
     /\ provider.forecastResult # NoForecastResult) =>
        provider.forecastResult.computedFrom = provider.fundSize
====
